---- MODULE Spec2Model ----
(***************************************************************************)
(* Model of ryxsurf-cpp: the Workspace -> Session -> Tab hierarchy owned   *)
(* by SessionManager, the tab lifecycle, TabUnloadManager's sweeps and     *)
(* PersistenceManager's save_all / load_all over the SQLite store, and     *)
(* Crypto's authenticated encryption, which PasswordManager's credential   *)
(* vault uses.                                                             *)
(*                                                                         *)
(* Indices are 0-based as in the C++ code; the element with index i of a   *)
(* vector v is v[i + 1] here.  Time is counted in ticks of half a second   *)
(* (TicksPerSec ticks make one second), so that the truncation to whole    *)
(* seconds done by the persistence layer is visible.                       *)
(***************************************************************************)
EXTENDS Integers, Sequences, FiniteSets, TLC

\* ---------------------------------------------------------------- bounds
MaxTabs == 2
MaxSessions == 2
MaxWorkspaces == 1
MaxStoredWorkspaces == 2
MaxTime == 5
MaxSaves == 1
MaxMessageLen == 2
MaxNavTabs == 3
MaxNavSessions == 2
MaxTicks == 2
MaxSweepTime == 4
MaxRemoveTime == 3

\* ------------------------------------------------------------- constants
TicksPerSec == 2
StartTime == 2

BlankUrl == "about:blank"
ExampleUrl == "https://example.com"
Urls == {ExampleUrl}
PageUrl == "https://example.com/page"
TabUrls == {"", BlankUrl, ExampleUrl}
Titles == {"Example"}
WorkspaceNames == {"Work"}
StoredWorkspaceNames == {"Main", "Work"}
Passwords == {"", "secret"}
SessionNames == {"Session 1"}
TimeoutValues == {1, 2}
MaxLoadedValues == {1, 2}
DefaultUnloadTimeout == 120
DefaultMaxLoadedTabs == 3
KEY_SIZE == 32
NONCE_SIZE == 24
ABYTES == 16
SALT_SIZE == 16

VARIABLES
    workspaces,               \* SessionManager::workspaces_
    current_workspace_index,  \* SessionManager::current_workspace_index_
    now,                      \* reading of steady_clock / system_clock, in ticks
    unload_timeout_seconds,   \* TabUnloadManager::unload_timeout_seconds_
    max_loaded_tabs,          \* TabUnloadManager::max_loaded_tabs_
    master_password,          \* PersistenceManager::master_password_
    db,                       \* the SQLite store behind PersistenceManager::db_
    crypto,                   \* a message on its way through Crypto::encrypt / decrypt
    vault,                    \* PasswordManager: its members, its table, the keyring
    vlog,                     \* the last vault operation, its result, what was saved
    tab,                      \* a Tab object of its own, as the tests construct one
    tlog,                     \* the last operation on tab and the tab before it
    app,                      \* the window, the PersistenceManager object, the timers
    last                      \* record of the last operation and what it observed

vars == <<workspaces, current_workspace_index, now, unload_timeout_seconds,
          max_loaded_tabs, master_password, db, crypto, vault, vlog, tab, tlog,
          app, last>>

\* ------------------------------------------------------------- sequences
RemoveAt(seq, index) ==
    SubSeq(seq, 1, index) \o SubSeq(seq, index + 2, Len(seq))

Range(seq) == {seq[i] : i \in 1..Len(seq)}

\* -------------------------------------------------------------------- Tab
\* Tab::Tab
Tab(url, t) ==
    [url |-> url, title |-> "New Tab", webview |-> FALSE, container |-> FALSE,
     view_uri |-> "", last_active |-> t, last_active_system |-> t,
     is_unloaded |-> FALSE, snapshot_path |-> ""]

is_loaded(t_) == t_.webview

\* Tab::mark_active
mark_active(t_, t) ==
    [t_ EXCEPT !.last_active = t, !.last_active_system = t]

\* Tab::create_webview when webkit_web_view_new returns view (TRUE a web
\* view, FALSE stands for NULL); view_uri is what webkit_web_view_get_uri
\* reports ("" stands for NULL, reported until a load was requested). The
\* function does not test what webkit_web_view_new returned: with NULL the
\* calls on the view return at their g_return_if_fail checks, the box is
\* created all the same, and the last two statements run
create_webview_from(t_, t, view) ==
    IF t_.webview THEN t_
    ELSE mark_active([t_ EXCEPT !.webview = view, !.container = TRUE,
                                !.view_uri = IF view /\ t_.url # "" /\ t_.url # BlankUrl
                                             THEN t_.url ELSE "",
                                !.is_unloaded = FALSE], t)

\* Tab::create_webview with an engine that supplies the view
create_webview(t_, t) == create_webview_from(t_, t, TRUE)

\* Tab::destroy_webview
destroy_webview(t_) ==
    IF ~t_.webview /\ ~t_.container THEN t_
    ELSE [t_ EXCEPT !.webview = FALSE, !.container = FALSE, !.view_uri = ""]

\* Tab::get_webview when webkit_web_view_new returns view
get_webview_from(t_, t, view) ==
    IF ~t_.webview /\ ~t_.is_unloaded THEN create_webview_from(t_, t, view) ELSE t_

\* Tab::get_webview with an engine that supplies the view
get_webview(t_, t) == get_webview_from(t_, t, TRUE)

\* Tab::get_container when webkit_web_view_new returns view
get_container_from(t_, t, view) ==
    IF ~t_.container /\ ~t_.is_unloaded THEN create_webview_from(t_, t, view) ELSE t_

\* Tab::unload setting the flag without the call of destroy_webview
unload_keeping_view(t_) ==
    IF t_.is_unloaded THEN t_
    ELSE LET saved == IF t_.webview /\ t_.view_uri # ""
                      THEN [t_ EXCEPT !.url = t_.view_uri] ELSE t_
         IN  [saved EXCEPT !.is_unloaded = TRUE]

\* Tab::unload without reading webkit_web_view_get_uri
unload_without_readback(t_) ==
    IF t_.is_unloaded THEN t_
    ELSE [destroy_webview(t_) EXCEPT !.is_unloaded = TRUE]

\* Tab::unload
unload(t_) ==
    IF t_.is_unloaded THEN t_
    ELSE LET saved == IF t_.webview /\ t_.view_uri # ""
                      THEN [t_ EXCEPT !.url = t_.view_uri] ELSE t_
         IN  [destroy_webview(saved) EXCEPT !.is_unloaded = TRUE]

\* Tab::restore without its test of is_unloaded_
restore_any_state(t_, t, view, again) ==
    LET created == create_webview_from(t_, t, view)
        navigates == t_.url # "" /\ t_.url # BlankUrl
        got == IF navigates THEN get_webview_from(created, t, again) ELSE created
    IN  [got EXCEPT !.view_uri = IF navigates /\ got.webview THEN t_.url ELSE @,
                    !.is_unloaded = FALSE]

\* Tab::restore when webkit_web_view_new returns view and, if get_webview
\* has to call create_webview once more, again
restore_from(t_, t, view, again) ==
    IF ~t_.is_unloaded THEN t_
    ELSE LET created == create_webview_from(t_, t, view)
             navigates == t_.url # "" /\ t_.url # BlankUrl
             got == IF navigates THEN get_webview_from(created, t, again) ELSE created
         IN  [got EXCEPT !.view_uri = IF navigates /\ got.webview THEN t_.url ELSE @,
                         !.is_unloaded = FALSE]

\* Tab::restore with an engine that supplies the view
restore(t_, t) == restore_from(t_, t, TRUE, TRUE)

\* Tab::set_last_active_system
set_last_active_system(t_, tp, t) ==
    [t_ EXCEPT !.last_active_system = tp, !.last_active = t]

\* ---------------------------------------------------------------- Session
\* Session::Session
Session(name, t) ==
    [name |-> name, tabs |-> <<>>, active_tab_index |-> 0, is_overview |-> FALSE,
     created_at |-> t, updated_at |-> t]

\* Session::add_tab without the assignment to active_tab_index_
add_tab_keeping_active(s, url, t) ==
    [s EXCEPT !.tabs = Append(@, Tab(url, t)),
              !.is_overview = FALSE,
              !.updated_at = t]

\* Session::add_tab
add_tab(s, url, t) ==
    [s EXCEPT !.tabs = Append(@, Tab(url, t)),
              !.active_tab_index = Len(s.tabs),
              !.is_overview = FALSE,
              !.updated_at = t]

remove_tab_noclamp(s, index, t) ==
    IF index >= Len(s.tabs) THEN s
    ELSE LET tabs == RemoveAt(s.tabs, index)
         IN  [s EXCEPT !.tabs = tabs,
                       !.is_overview = IF tabs = <<>> THEN TRUE ELSE @,
                       !.updated_at = t]

\* Session::remove_tab keeping the active index on the tab it pointed at
\* when a tab before it is removed
remove_tab_following(s, index, t) ==
    IF index >= Len(s.tabs) THEN s
    ELSE LET tabs == RemoveAt(s.tabs, index)
         IN  [s EXCEPT !.tabs = tabs,
                       !.active_tab_index =
                           IF tabs = <<>> THEN 0
                           ELSE IF index < @ THEN @ - 1
                           ELSE IF @ >= Len(tabs) THEN Len(tabs) - 1 ELSE @,
                       !.is_overview = IF tabs = <<>> THEN TRUE ELSE @,
                       !.updated_at = t]

\* Session::remove_tab
remove_tab(s, index, t) ==
    IF index >= Len(s.tabs) THEN s
    ELSE LET tabs == RemoveAt(s.tabs, index)
         IN  [s EXCEPT !.tabs = tabs,
                       !.active_tab_index =
                           IF tabs = <<>> THEN 0
                           ELSE IF @ >= Len(tabs) THEN Len(tabs) - 1 ELSE @,
                       !.is_overview = IF tabs = <<>> THEN TRUE ELSE @,
                       !.updated_at = t]

\* Session::set_active_tab
set_active_tab(s, index, t) ==
    IF index < Len(s.tabs)
    THEN [s EXCEPT !.active_tab_index = index,
                   !.tabs[index + 1] = mark_active(@, t),
                   !.updated_at = t]
    ELSE s

\* -------------------------------------------------------------- Workspace
\* Workspace::Workspace
Workspace(name, t) ==
    [name |-> name, sessions |-> <<>>, active_session_index |-> 0,
     created_at |-> t, updated_at |-> t]

\* Workspace::add_session
add_session(w, name, t) ==
    [w EXCEPT !.sessions = Append(@, Session(name, t)),
              !.active_session_index = Len(w.sessions),
              !.updated_at = t]

\* Workspace::remove_session
remove_session(w, index, t) ==
    IF index >= Len(w.sessions) THEN w
    ELSE LET sessions == RemoveAt(w.sessions, index)
         IN  [w EXCEPT !.sessions = sessions,
                       !.active_session_index =
                           IF sessions = <<>> THEN 0
                           ELSE IF @ >= Len(sessions) THEN Len(sessions) - 1 ELSE @,
                       !.updated_at = t]

\* Workspace::set_active_session
set_active_session(w, index, t) ==
    IF index < Len(w.sessions)
    THEN [w EXCEPT !.active_session_index = index, !.updated_at = t]
    ELSE w

\* --------------------------------------------------------- SessionManager
\* A SessionManager value is [workspaces, current_workspace_index].
SM(ws, cwi) == [workspaces |-> ws, current_workspace_index |-> cwi]

\* SessionManager::ensure_default_workspace creating the workspace without
\* its session
ensure_default_workspace_bare(sm, t) ==
    IF sm.workspaces = <<>> THEN SM(<<Workspace("Main", t)>>, 0) ELSE sm

\* SessionManager::ensure_default_workspace
ensure_default_workspace(sm, t) ==
    IF sm.workspaces = <<>>
    THEN LET w == add_session(Workspace("Main", t), "Overview", t)
         IN  SM(<<[w EXCEPT !.sessions[1].is_overview = TRUE]>>, 0)
    ELSE sm

\* SessionManager::get_current_workspace: the manager after the call (the
\* call creates the default workspace and repairs the index)
get_current_workspace(sm, t) ==
    LET e == ensure_default_workspace(sm, t)
    IN  IF e.current_workspace_index >= Len(e.workspaces)
        THEN [e EXCEPT !.current_workspace_index = 0] ELSE e

\* the workspace and the session the accessors return on a repaired manager
CurWs(sm) == sm.workspaces[sm.current_workspace_index + 1]
HasSession(sm) == CurWs(sm).sessions # <<>>
CurSession(sm) == CurWs(sm).sessions[CurWs(sm).active_session_index + 1]

SetCurWs(sm, w) == [sm EXCEPT !.workspaces[sm.current_workspace_index + 1] = w]
SetCurSession(sm, s) ==
    SetCurWs(sm, [CurWs(sm) EXCEPT !.sessions[CurWs(sm).active_session_index + 1] = s])

\* the tab get_current_tab returns, if any
HasTab(sm) == HasSession(sm) /\ CurSession(sm).tabs # <<>>
CurTab(sm) == CurSession(sm).tabs[CurSession(sm).active_tab_index + 1]
SetCurTab(sm, t_) ==
    SetCurSession(sm, [CurSession(sm) EXCEPT !.tabs[CurSession(sm).active_tab_index + 1] = t_])

\* SessionManager::add_workspace
add_workspace(sm, name, t) ==
    [sm EXCEPT !.workspaces = Append(@, Workspace(name, t))]

\* SessionManager::switch_workspace
switch_workspace(sm, index) ==
    IF index < Len(sm.workspaces)
    THEN [sm EXCEPT !.current_workspace_index = index] ELSE sm

\* SessionManager::switch_session
switch_session(sm, index, t) ==
    LET g == get_current_workspace(sm, t)
    IN  SetCurWs(g, set_active_session(CurWs(g), index, t))

\* SessionManager::switch_tab
switch_tab(sm, index, t) ==
    LET g == get_current_workspace(sm, t)
    IN  IF HasSession(g) THEN SetCurSession(g, set_active_tab(CurSession(g), index, t))
        ELSE g

\* SessionManager::new_tab
new_tab(sm, url, t) ==
    LET g == get_current_workspace(sm, t)
        h == IF HasSession(g) THEN g
             ELSE SetCurWs(g, add_session(CurWs(g), "Session 1", t))
    IN  SetCurSession(h, add_tab(CurSession(h), url, t))

\* SessionManager::close_current_tab
close_current_tab(sm, t) ==
    LET g == get_current_workspace(sm, t)
    IN  IF ~HasSession(g) THEN g
        ELSE LET s == remove_tab(CurSession(g), CurSession(g).active_tab_index, t)
                 h == SetCurSession(g, s)
             IN  IF s.tabs = <<>> /\ ~s.is_overview
                 THEN SetCurWs(h, remove_session(CurWs(h),
                                                 CurWs(h).active_session_index, t))
                 ELSE h

\* SessionManager::next_tab
next_tab(sm, t) ==
    LET g == get_current_workspace(sm, t)
    IN  IF ~HasSession(g) \/ CurSession(g).tabs = <<>> THEN g
        ELSE LET s == CurSession(g)
             IN  SetCurSession(g, set_active_tab(s,
                     (s.active_tab_index + 1) % Len(s.tabs), t))

\* SessionManager::previous_tab staying at the first tab
previous_tab_clamped(sm, t) ==
    LET g == get_current_workspace(sm, t)
    IN  IF ~HasSession(g) \/ CurSession(g).tabs = <<>> THEN g
        ELSE LET s == CurSession(g)
             IN  SetCurSession(g, set_active_tab(s,
                     IF s.active_tab_index = 0 THEN 0
                     ELSE s.active_tab_index - 1, t))

\* SessionManager::previous_tab
previous_tab(sm, t) ==
    LET g == get_current_workspace(sm, t)
    IN  IF ~HasSession(g) \/ CurSession(g).tabs = <<>> THEN g
        ELSE LET s == CurSession(g)
             IN  SetCurSession(g, set_active_tab(s,
                     IF s.active_tab_index = 0 THEN Len(s.tabs) - 1
                     ELSE s.active_tab_index - 1, t))

\* SessionManager::next_session
next_session(sm, t) ==
    LET g == get_current_workspace(sm, t)
    IN  IF CurWs(g).sessions = <<>> THEN g
        ELSE LET w == CurWs(g)
             IN  SetCurWs(g, set_active_session(w,
                     (w.active_session_index + 1) % Len(w.sessions), t))

\* SessionManager::previous_session
previous_session(sm, t) ==
    LET g == get_current_workspace(sm, t)
    IN  IF CurWs(g).sessions = <<>> THEN g
        ELSE LET w == CurWs(g)
             IN  SetCurWs(g, set_active_session(w,
                     IF w.active_session_index = 0 THEN Len(w.sessions) - 1
                     ELSE w.active_session_index - 1, t))

\* SessionManager::reset
reset(sm, create_default, t) ==
    IF create_default THEN ensure_default_workspace(SM(<<>>, 0), t) ELSE SM(<<>>, 0)

\* ------------------------------------------------------- TabUnloadManager
\* TabUnloadManager::count_loaded_tabs
count_loaded_tabs(s) ==
    Cardinality({i \in 1..Len(s.tabs) : is_loaded(s.tabs[i]) /\ ~s.tabs[i].is_unloaded})

should_unload_tab_any_index(t_, tab_index, active_index, t, timeout) ==
    IF t_.is_unloaded \/ ~is_loaded(t_) THEN FALSE
    ELSE (t - t_.last_active) \div TicksPerSec >= timeout

\* TabUnloadManager::should_unload_tab asking for more than the timeout
should_unload_tab_past_timeout(t_, tab_index, active_index, t, timeout) ==
    IF tab_index = active_index THEN FALSE
    ELSE IF t_.is_unloaded \/ ~is_loaded(t_) THEN FALSE
    ELSE (t - t_.last_active) \div TicksPerSec > timeout

\* TabUnloadManager::should_unload_tab (elapsed is truncated to whole seconds)
should_unload_tab(t_, tab_index, active_index, t, timeout) ==
    IF tab_index = active_index THEN FALSE
    ELSE IF t_.is_unloaded \/ ~is_loaded(t_) THEN FALSE
    ELSE (t - t_.last_active) \div TicksPerSec >= timeout

\* the path SnapshotManager::get_snapshot_path gives the files of a tab
SnapshotFile == "snapshots/tab.png"

\* SnapshotManager::create_snapshot: the path it returns, empty when
\* snapshots are not enabled or the tab has no view; the tab is only read
create_snapshot(t_, enabled) ==
    IF ~enabled THEN ""
    ELSE IF ~is_loaded(t_) THEN ""
    ELSE IF ~t_.webview THEN ""
    ELSE SnapshotFile

\* TabUnloadManager::unload_tab storing the path of the snapshot in the tab
unload_tab_recording(t_) ==
    IF ~is_loaded(t_) \/ t_.is_unloaded THEN t_
    ELSE LET snapshot_path == create_snapshot(t_, app.snapshots_enabled)
         IN  unload(IF snapshot_path # ""
                    THEN [t_ EXCEPT !.snapshot_path = snapshot_path] ELSE t_)

\* TabUnloadManager::unload_tab in the window's SnapshotManager, with
\* snapshots enabled or not: the path create_snapshot returns is dropped
unload_tab(t_) ==
    IF ~is_loaded(t_) \/ t_.is_unloaded THEN t_
    ELSE LET snapshot_path == create_snapshot(t_, app.snapshots_enabled)
         IN  unload(t_)

\* the candidates vector of check_and_unload, as 0-based tab indices
Candidates(s, a, t, timeout) ==
    {i \in 0..(Len(s.tabs) - 1) : should_unload_tab(s.tabs[i + 1], i, a, t, timeout)}

\* the orders std::sort may leave the candidates in: ascending last_active,
\* equal elements in any order
SortedCandidates(s, a, t, timeout) ==
    LET c == Candidates(s, a, t, timeout)
        n == Cardinality(c)
    IN  {o \in [1..n -> c] :
            /\ \A i, j \in 1..n : i # j => o[i] # o[j]
            /\ \A i, j \in 1..n : i < j =>
                   s.tabs[o[i] + 1].last_active <= s.tabs[o[j] + 1].last_active}

Min(a, b) == IF a < b THEN a ELSE b

\* TabUnloadManager::check_and_unload; order is the sorted candidates vector
check_and_unload(s, a, t, timeout, max, order) ==
    LET loaded_count == count_loaded_tabs(s)
    IN  IF loaded_count > max
        THEN LET to_unload == loaded_count - max
                 chosen == {order[i] : i \in 1..Min(to_unload, Len(order))}
             IN  [s EXCEPT !.tabs = [i \in 1..Len(s.tabs) |->
                     IF (i - 1) \in chosen THEN unload_tab(s.tabs[i]) ELSE s.tabs[i]]]
        ELSE [s EXCEPT !.tabs = [i \in 1..Len(s.tabs) |->
                     IF should_unload_tab(s.tabs[i], i - 1, a, t, timeout)
                     THEN unload_tab(s.tabs[i]) ELSE s.tabs[i]]]

\* TabUnloadManager::unload_all_except_active leaving the first tab active
unload_all_except_active_rewinding(s, a) ==
    [s EXCEPT !.active_tab_index = 0,
              !.tabs = [i \in 1..Len(s.tabs) |->
        IF (i - 1) # a /\ is_loaded(s.tabs[i]) /\ ~s.tabs[i].is_unloaded
        THEN unload_tab(s.tabs[i]) ELSE s.tabs[i]]]

\* TabUnloadManager::unload_all_except_active
unload_all_except_active(s, a) ==
    [s EXCEPT !.tabs = [i \in 1..Len(s.tabs) |->
        IF (i - 1) # a /\ is_loaded(s.tabs[i]) /\ ~s.tabs[i].is_unloaded
        THEN unload_tab(s.tabs[i]) ELSE s.tabs[i]]]

\* ----------------------------------------------------- PersistenceManager
\* The store: the rows of the three tables in insertion (rowid) order, the
\* AUTOINCREMENT counters of workspaces and sessions, and the number of
\* committed save_all transactions.  A text cell holds what was bound to it.
PlainCell(text) == [enc |-> FALSE, key |-> "", nonce |-> 0, text |-> text]

\* sqlite3_column_text of a cell
ColumnText(cell) == IF cell.enc THEN "<ciphertext>" ELSE cell.text

\* seconds since the epoch of a time point, and from_time_t
ToSeconds(t) == t \div TicksPerSec
FromTimeT(sec) == sec * TicksPerSec

is_empty_default_any_name(w) ==
    /\ Len(w.sessions) = 1
    /\ w.sessions[1].is_overview
    /\ Len(w.sessions[1].tabs) = 0

\* the is_empty_default test of save_all
is_empty_default(w) ==
    /\ w.name = "Main"
    /\ Len(w.sessions) = 1
    /\ w.sessions[1].is_overview
    /\ Len(w.sessions[1].tabs) = 0

\* rows deleted together with the workspace rows ids (ON DELETE CASCADE)
DeleteWorkspaceRows(st, ids) ==
    LET KeepW(r) == r.id \notin ids
        KeepS(r) == r.workspace_id \notin ids
        gone == {r.id : r \in {x \in Range(st.sessions) : x.workspace_id \in ids}}
        KeepT(r) == r.session_id \notin gone
    IN  [st EXCEPT !.workspaces = SelectSeq(@, KeepW),
                   !.sessions = SelectSeq(@, KeepS),
                   !.tabs = SelectSeq(@, KeepT)]

DeleteSessionRows(st, ids) ==
    LET KeepS(r) == r.id \notin ids
        KeepT(r) == r.session_id \notin ids
    IN  [st EXCEPT !.sessions = SelectSeq(@, KeepS), !.tabs = SelectSeq(@, KeepT)]

\* INSERT OR REPLACE INTO workspaces: a row with the same name is replaced
InsertWorkspace(st, w) ==
    LET same == {r.id : r \in {x \in Range(st.workspaces) : x.name = PlainCell(w.name)}}
        d == DeleteWorkspaceRows(st, same)
    IN  [d EXCEPT !.ws_seq = @ + 1,
                  !.workspaces = Append(@, [id |-> st.ws_seq + 1,
                                            name |-> PlainCell(w.name),
                                            created_at |-> ToSeconds(w.created_at),
                                            updated_at |-> ToSeconds(w.updated_at)])]

\* INSERT OR REPLACE INTO sessions: UNIQUE(workspace_id, name)
InsertSession(st, wid, s) ==
    LET same == {r.id : r \in {x \in Range(st.sessions) :
                     x.workspace_id = wid /\ x.name = PlainCell(s.name)}}
        d == DeleteSessionRows(st, same)
    IN  [d EXCEPT !.s_seq = @ + 1,
                  !.sessions = Append(@, [id |-> st.s_seq + 1,
                                          workspace_id |-> wid,
                                          name |-> PlainCell(s.name),
                                          is_overview |-> IF s.is_overview THEN 1 ELSE 0,
                                          created_at |-> ToSeconds(s.created_at),
                                          updated_at |-> ToSeconds(s.updated_at)])]

\* INSERT INTO tabs
InsertTab(st, sid, t_, position) ==
    [st EXCEPT !.tabs = Append(@, [session_id |-> sid,
                                   url |-> PlainCell(t_.url),
                                   title |-> PlainCell(t_.title),
                                   snapshot_path |-> PlainCell(t_.snapshot_path),
                                   last_active |-> ToSeconds(t_.last_active_system),
                                   position |-> position])]

\* which insert of a save_all fails, if any
NoFail == [kind |-> "none", w |-> 0, s |-> 0, t |-> 0]
FailsAt(fail, kind, w, s, t) ==
    fail = [kind |-> kind, w |-> w, s |-> s, t |-> t]

\* save_workspace: the tab loop of session s of workspace w, from tab j on
RECURSIVE SaveTabs(_, _, _, _, _, _, _)
SaveTabs(st, sid, tabs, w, s, j, fail) ==
    IF j >= Len(tabs) THEN st
    ELSE SaveTabs(IF FailsAt(fail, "tab", w, s, j) THEN st
                  ELSE InsertTab(st, sid, tabs[j + 1], j),
                  sid, tabs, w, s, j + 1, fail)

\* save_workspace: the session loop of workspace w, from session i on
RECURSIVE SaveSessions(_, _, _, _, _, _)
SaveSessions(st, wid, sessions, w, i, fail) ==
    IF i >= Len(sessions) THEN st
    ELSE SaveSessions(IF FailsAt(fail, "session", w, i, 0) THEN st
                      ELSE LET ins == InsertSession(st, wid, sessions[i + 1])
                           IN  SaveTabs(ins, ins.s_seq, sessions[i + 1].tabs, w, i, 0, fail),
                      wid, sessions, w, i + 1, fail)

\* PersistenceManager::save_workspace for the workspace with index w
save_workspace(st, workspace, w, fail) ==
    IF FailsAt(fail, "workspace", w, 0, 0) THEN [ok |-> FALSE, st |-> st]
    ELSE LET ins == InsertWorkspace(st, workspace)
         IN  [ok |-> TRUE,
              st |-> SaveSessions(ins, ins.ws_seq, workspace.sessions, w, 0, fail)]

\* save_all: the workspace loop, from workspace k on
RECURSIVE SaveWorkspaces(_, _, _, _)
SaveWorkspaces(st, wss, k, fail) ==
    IF k >= Len(wss) THEN [ok |-> TRUE, st |-> st]
    ELSE IF is_empty_default(wss[k + 1]) THEN SaveWorkspaces(st, wss, k + 1, fail)
    ELSE LET r == save_workspace(st, wss[k + 1], k, fail)
         IN  IF r.ok THEN SaveWorkspaces(r.st, wss, k + 1, fail) ELSE r

\* PersistenceManager::save_all: the return value and the store afterwards
\* (BEGIN, the three DELETEs, the inserts, then COMMIT or ROLLBACK)
save_all(wss, store, fail) ==
    IF ~store.open THEN [ok |-> FALSE, db |-> store]
    ELSE LET cleared == [store EXCEPT !.workspaces = <<>>, !.sessions = <<>>,
                                      !.tabs = <<>>]
             r == SaveWorkspaces(cleared, wss, 0, fail)
         IN  IF r.ok THEN [ok |-> TRUE, db |-> [r.st EXCEPT !.saves = @ + 1]]
             ELSE [ok |-> FALSE, db |-> store]

\* load_all: the tab loop; rows are the session's rows by position, which is
\* also their insertion order
RECURSIVE LoadTabs(_, _, _)
LoadTabs(session, rows, t) ==
    IF rows = <<>> THEN session
    ELSE LET row == rows[1]
             added == add_tab(session, ColumnText(row.url), t)
             n == Len(added.tabs)
             titled == [added.tabs[n] EXCEPT !.title = ColumnText(row.title),
                                             !.snapshot_path = ColumnText(row.snapshot_path)]
             loaded == IF row.last_active > 0
                    THEN set_last_active_system(titled, FromTimeT(row.last_active), t)
                    ELSE titled
         IN  LoadTabs([added EXCEPT !.tabs[n] = loaded], Tail(rows), t)

\* load_all: the session loop of one workspace
RECURSIVE LoadSessions(_, _, _, _)
LoadSessions(w, rows, store, t) ==
    IF rows = <<>> THEN w
    ELSE LET row == rows[1]
             added == add_session(w, ColumnText(row.name), t)
             n == Len(added.sessions)
             Mine(r) == r.session_id = row.id
             flagged == [added.sessions[n] EXCEPT
                            !.is_overview = (row.is_overview # 0),
                            !.created_at = IF row.created_at > 0
                                           THEN FromTimeT(row.created_at) ELSE @,
                            !.updated_at = IF row.updated_at > 0
                                           THEN FromTimeT(row.updated_at) ELSE @]
             session == LoadTabs(flagged, SelectSeq(store.tabs, Mine), t)
         IN  LoadSessions([added EXCEPT !.sessions[n] = session], Tail(rows), store, t)

\* load_all: the workspace loop
RECURSIVE LoadWorkspaces(_, _, _, _)
LoadWorkspaces(sm, rows, store, t) ==
    IF rows = <<>> THEN sm
    ELSE LET row == rows[1]
             added == add_workspace(sm, ColumnText(row.name), t)
             n == Len(added.workspaces)
             Mine(r) == r.workspace_id = row.id
             stamped == [added.workspaces[n] EXCEPT
                            !.created_at = IF row.created_at > 0
                                           THEN FromTimeT(row.created_at) ELSE @,
                            !.updated_at = IF row.updated_at > 0
                                           THEN FromTimeT(row.updated_at) ELSE @]
             w == LoadSessions(stamped, SelectSeq(store.sessions, Mine), store, t)
         IN  LoadWorkspaces([added EXCEPT !.workspaces[n] = w], Tail(rows), store, t)

\* PersistenceManager::load_all keeping the current workspace index of the
\* manager it loads into when the loaded workspaces reach it
load_all_keeping_current(sm, store, t, prepare_fails) ==
    IF ~store.open THEN [ok |-> FALSE, sm |-> sm]
    ELSE IF prepare_fails THEN [ok |-> FALSE, sm |-> reset(sm, FALSE, t)]
    ELSE LET loaded == LoadWorkspaces(reset(sm, FALSE, t), store.workspaces, store, t)
             kept == IF sm.current_workspace_index < Len(loaded.workspaces)
                     THEN [loaded EXCEPT !.current_workspace_index = sm.current_workspace_index]
                     ELSE loaded
         IN  [ok |-> TRUE,
              sm |-> IF store.workspaces = <<>> THEN reset(loaded, TRUE, t) ELSE kept]

\* PersistenceManager::load_all: the return value and the manager afterwards;
\* prepare_fails says that the workspace query cannot be prepared
load_all(sm, store, t, prepare_fails) ==
    IF ~store.open THEN [ok |-> FALSE, sm |-> sm]
    ELSE IF prepare_fails THEN [ok |-> FALSE, sm |-> reset(sm, FALSE, t)]
    ELSE LET loaded == LoadWorkspaces(reset(sm, FALSE, t), store.workspaces, store, t)
         IN  [ok |-> TRUE,
              sm |-> IF store.workspaces = <<>> THEN reset(loaded, TRUE, t) ELSE loaded]

\* ----------------------------------------------------------------- Crypto
\* Byte vectors are sequences.  A byte of a key, a nonce or a message is a
\* number in 0..255, written [b |-> n] inside a ciphertext; a byte of an
\* authentication tag is the value the tag is computed from, so that two tags
\* are equal exactly when they authenticate the same (key, nonce, encrypted
\* message).
Repeat(b, n) == [i \in 1..n |-> b]
Bytes(numbers) == [i \in 1..Len(numbers) |-> [b |-> numbers[i]]]
Numbers(bytes) == [i \in 1..Len(bytes) |-> bytes[i].b]

CryptoKeys == {Repeat(1, KEY_SIZE), Repeat(2, KEY_SIZE)}
ShortKey == Repeat(1, KEY_SIZE - 1)
Nonces == {Repeat(0, NONCE_SIZE), Repeat(9, NONCE_SIZE)}
MessageBytes == {0, 255}
Messages == UNION {[1..n -> MessageBytes] : n \in 0..MaxMessageLen}
AlteredBytes == {[b |-> 0], [b |-> 1]}

\* the key stream of the cipher for the byte with index i
KeyStream(key, nonce, i) ==
    (key[(i % KEY_SIZE) + 1] * 7 + nonce[(i % NONCE_SIZE) + 1] + i) % 256

\* the authentication tag of an encrypted message
AeadTag(key, nonce, body) ==
    Repeat([key |-> key, nonce |-> nonce, body |-> body], ABYTES)

\* crypto_aead_xchacha20poly1305_ietf_encrypt: encrypted message, then tag
aead_encrypt(m, nonce, key) ==
    LET body == [i \in 1..Len(m) |-> (m[i] + KeyStream(key, nonce, i - 1)) % 256]
    IN  Bytes(body) \o AeadTag(key, nonce, body)

\* crypto_aead_xchacha20poly1305_ietf_decrypt: 0 and the message when the tag
\* authenticates the encrypted message, -1 otherwise
aead_decrypt(c, nonce, key) ==
    LET body == Numbers(SubSeq(c, 1, Len(c) - ABYTES))
        tag == SubSeq(c, Len(c) - ABYTES + 1, Len(c))
    IN  IF tag = AeadTag(key, nonce, body)
        THEN [rc |-> 0,
              m |-> [i \in 1..Len(body) |->
                        (body[i] + 256 - KeyStream(key, nonce, i - 1)) % 256]]
        ELSE [rc |-> -1, m |-> <<>>]

Returned(data) == [status |-> "ok", data |-> data]
Thrown(what) == [status |-> what, data |-> <<>>]

encrypt_zero_nonce(plaintext, key, nonce) ==
    IF Len(key) # KEY_SIZE THEN Thrown("Key must be 32 bytes")
    ELSE Returned(Bytes(Repeat(0, NONCE_SIZE)) \o aead_encrypt(plaintext, nonce, key))

\* Crypto::encrypt, nonce being what random_bytes(NONCE_SIZE) returned
encrypt(plaintext, key, nonce) ==
    IF Len(key) # KEY_SIZE THEN Thrown("Key must be 32 bytes")
    ELSE Returned(Bytes(nonce) \o aead_encrypt(plaintext, nonce, key))

decrypt_unchecked(ciphertext, key) ==
    IF Len(key) # KEY_SIZE THEN Thrown("Key must be 32 bytes")
    ELSE IF Len(ciphertext) < NONCE_SIZE + ABYTES THEN Thrown("Ciphertext too short")
    ELSE LET nonce == Numbers(SubSeq(ciphertext, 1, NONCE_SIZE))
             encrypted == SubSeq(ciphertext, NONCE_SIZE + 1, Len(ciphertext))
             body == Numbers(SubSeq(encrypted, 1, Len(encrypted) - ABYTES))
         IN  Returned([i \in 1..Len(body) |->
                          (body[i] + 256 - KeyStream(key, nonce, i - 1)) % 256])

\* Crypto::decrypt
decrypt(ciphertext, key) ==
    IF Len(key) # KEY_SIZE THEN Thrown("Key must be 32 bytes")
    ELSE IF Len(ciphertext) < NONCE_SIZE + ABYTES THEN Thrown("Ciphertext too short")
    ELSE LET nonce == Numbers(SubSeq(ciphertext, 1, NONCE_SIZE))
             encrypted == SubSeq(ciphertext, NONCE_SIZE + 1, Len(ciphertext))
             r == aead_decrypt(encrypted, nonce, key)
         IN  IF r.rc # 0 THEN Thrown("Decryption failed") ELSE Returned(r.m)

\* -------------------------------------------------------- PasswordManager
\* A std::string is a sequence of characters.
QuoteChar == "'"
BarChar == "|"
VaultDomain == <<"d">>
UrlDomain == <<"s", ":", "/", "/", "d", ":", "8", "/", "p">>
OtherDomain == <<"e">>
Alice == <<"a">>
Bob == <<"b">>
Usernames == {Alice, Bob}
VaultPasswords == {<<"p">>, <<"p", QuoteChar, BarChar, BarChar, QuoteChar, "q">>,
                   <<"p", QuoteChar, "q">>}
MasterPasswords == {"", "secret"}

\* the byte of a character, and back
CharCodes ==
    [c \in {"a", "b", "d", "e", "p", "q", QuoteChar, BarChar} |->
        CASE c = "a" -> 97 [] c = "b" -> 98 [] c = "d" -> 100 [] c = "e" -> 101
          [] c = "p" -> 112 [] c = "q" -> 113 [] c = QuoteChar -> 39 [] c = BarChar -> 124]
CharOf(code) == CHOOSE c \in DOMAIN CharCodes : CharCodes[c] = code

\* What SQLite reads where the statement text holds a quote, the characters
\* of text and a quote: the value of the expression that starts there.  Inside
\* a literal two quotes stand for one and one quote ends the literal; after a
\* literal || and a further literal concatenate.  Anything else is an error
\* here; mode is "in" inside a literal, "out" after one, "bar" after one bar
\* and "cat" after two.
RECURSIVE SqlScan(_, _, _, _)
SqlScan(text, i, mode, acc) ==
    IF i > Len(text)
    THEN IF mode = "in" THEN [ok |-> TRUE, value |-> acc]
         ELSE [ok |-> FALSE, value |-> <<>>]
    ELSE LET c == text[i]
         IN  CASE mode = "in" /\ c # QuoteChar -> SqlScan(text, i + 1, "in", Append(acc, c))
               [] mode = "in" /\ c = QuoteChar /\ i = Len(text) ->
                      [ok |-> FALSE, value |-> <<>>]
               [] mode = "in" /\ c = QuoteChar /\ i < Len(text)
                      /\ text[i + 1] = QuoteChar ->
                      SqlScan(text, i + 2, "in", Append(acc, QuoteChar))
               [] mode = "in" /\ c = QuoteChar /\ i < Len(text)
                      /\ text[i + 1] # QuoteChar -> SqlScan(text, i + 1, "out", acc)
               [] mode = "out" /\ c = BarChar -> SqlScan(text, i + 1, "bar", acc)
               [] mode = "bar" /\ c = BarChar -> SqlScan(text, i + 1, "cat", acc)
               [] mode = "cat" /\ c = QuoteChar -> SqlScan(text, i + 1, "in", acc)
               [] OTHER -> [ok |-> FALSE, value |-> <<>>]

\* the value of '<text>' in a statement built with operator<<
SqlQuoted(text) == SqlScan(text, 1, "in", <<>>)

\* PasswordManager::PasswordManager, use_libsecret saying whether
\* secret_service_get_sync returned a service
PasswordManager(use_libsecret) ==
    [use_libsecret |-> use_libsecret, db_open |-> FALSE, master_password |-> "",
     encryption_key |-> <<>>, rows |-> <<>>, items |-> <<>>]

\* what Crypto::random_bytes(SALT_SIZE) may return
Salts == {Repeat(0, SALT_SIZE), Repeat(1, SALT_SIZE)}

\* the salt in the salt file of the vault
VaultSalt == Repeat(0, SALT_SIZE)

\* Crypto::derive_key: argon2id gives each passphrase and salt a key of its
\* own
derive_key(password, salt) ==
    Repeat((IF password = "secret" THEN 1 ELSE 2) + 2 * salt[1], KEY_SIZE)

\* PasswordManager::init_database
init_database(pm) ==
    IF pm.use_libsecret THEN pm ELSE [pm EXCEPT !.db_open = TRUE]

\* PasswordManager::initialize
vault_initialize(pm, password) ==
    LET named == [pm EXCEPT !.master_password = password]
    IN  IF pm.use_libsecret THEN named
        ELSE init_database(IF password # ""
                           THEN [named EXCEPT !.encryption_key = derive_key(password, VaultSalt)]
                           ELSE named)

\* the "%02x" digits of a byte vector, a pair of digits for each byte
Hex(bytes) == [i \in 1..Len(bytes) |-> [hex |-> bytes[i]]]
Unhex(digits) == [i \in 1..Len(digits) |-> digits[i].hex]

\* PasswordManager::encrypt_password
encrypt_password(pm, password, nonce) ==
    IF pm.encryption_key = <<>> THEN password
    ELSE Hex(encrypt([i \in 1..Len(password) |-> CharCodes[password[i]]],
                     pm.encryption_key, nonce).data)

\* what Crypto::decrypt does in PasswordManager::decrypt_password, which
\* handles no exception.  A text that encrypt_password wrote under a key has
\* a pair of digits for each byte of a nonce, a message and a tag.  A text
\* stored without a key is the password itself, here always shorter than
\* that: it holds no "%02x" digits, sscanf leaves byte as it was,
\* uninitialized, and whatever bytes that gives the vector is refused for
\* its length
decrypt_password_result(pm, encrypted) ==
    IF Len(pm.encryption_key) # KEY_SIZE THEN Thrown("Key must be 32 bytes")
    ELSE IF Len(encrypted) < NONCE_SIZE + ABYTES THEN Thrown("Ciphertext too short")
    ELSE decrypt(Unhex(encrypted), pm.encryption_key)

\* what PasswordManager::decrypt_password throws: "ok" when it returns
decrypt_password_thrown(pm, encrypted) ==
    IF pm.encryption_key = <<>> THEN "ok"
    ELSE decrypt_password_result(pm, encrypted).status

\* PasswordManager::decrypt_password when it returns
decrypt_password(pm, encrypted) ==
    IF pm.encryption_key = <<>> THEN encrypted
    ELSE LET plaintext == decrypt_password_result(pm, encrypted).data
         IN  [i \in 1..Len(plaintext) |-> CharOf(plaintext[i])]

\* INSERT OR REPLACE INTO credentials under UNIQUE(domain, username)
InsertCredential(rows, row) ==
    LET Other(r) == ~(r.domain = row.domain /\ r.username = row.username)
    IN  Append(SelectSeq(rows, Other), row)

\* PasswordManager::save_to_sqlite: the return value and the manager
save_to_sqlite(pm, domain, username, password, nonce, t) ==
    IF ~pm.db_open THEN [ok |-> FALSE, pm |-> pm]
    ELSE LET d == SqlQuoted(domain)
             u == SqlQuoted(username)
             e == encrypt_password(pm, password, nonce)
             p == IF pm.encryption_key = <<>> THEN SqlQuoted(e)
                  ELSE [ok |-> TRUE, value |-> e]
         IN  IF d.ok /\ u.ok /\ p.ok
             THEN [ok |-> TRUE,
                   pm |-> [pm EXCEPT !.rows = InsertCredential(@,
                              [domain |-> d.value, username |-> u.value,
                               password_encrypted |-> p.value,
                               created |-> ToSeconds(t), last_used |-> ToSeconds(t)])]]
             ELSE [ok |-> FALSE, pm |-> pm]

\* secret_password_store_sync: the item with the same attributes is replaced
StoreItem(items, item) ==
    LET Other(r) == ~(r.domain = item.domain /\ r.username = item.username)
    IN  Append(SelectSeq(items, Other), item)

\* PasswordManager::save_to_libsecret
save_to_libsecret(pm, domain, username, password, t) ==
    LET stored == [pm EXCEPT !.items = StoreItem(@, [domain |-> domain,
                                 username |-> username, password |-> password])]
        opened == IF ~stored.db_open THEN init_database(stored) ELSE stored
        d == SqlQuoted(domain)
        u == SqlQuoted(username)
    IN  [ok |-> TRUE,
         pm |-> IF opened.db_open /\ d.ok /\ u.ok
                THEN [opened EXCEPT !.rows = InsertCredential(@,
                         [domain |-> d.value, username |-> u.value,
                          password_encrypted |-> <<>>,
                          created |-> ToSeconds(t), last_used |-> ToSeconds(t)])]
                ELSE opened]

\* PasswordManager::save
vault_save(pm, domain, username, password, nonce, t) ==
    IF pm.use_libsecret THEN save_to_libsecret(pm, domain, username, password, t)
    ELSE save_to_sqlite(pm, domain, username, password, nonce, t)

\* PasswordManager::get_from_libsecret at time t, the keyring listing its
\* items in the order they were stored
get_from_libsecret(pm, domain, t) ==
    LET Match(item) == item.domain = domain
        found == SelectSeq(pm.items, Match)
    IN  [i \in 1..Len(found) |->
            [domain |-> domain, username |-> found[i].username,
             password |-> found[i].password, created |-> t, last_used |-> t]]

\* PasswordManager::get_from_sqlite
get_from_sqlite(pm, domain) ==
    IF ~pm.db_open THEN <<>>
    ELSE LET Match(r) == r.domain = domain
             found == SelectSeq(pm.rows, Match)
         IN  [i \in 1..Len(found) |->
                 [domain |-> domain, username |-> found[i].username,
                  password |-> decrypt_password(pm, found[i].password_encrypted),
                  created |-> FromTimeT(found[i].created),
                  last_used |-> FromTimeT(found[i].last_used)]]

\* the exception that leaves PasswordManager::get_from_sqlite, thrown by the
\* decrypt_password of the first row that cannot be decrypted: "ok" when the
\* function returns
get_from_sqlite_thrown(pm, domain) ==
    IF ~pm.db_open THEN "ok"
    ELSE LET Fails(r) == /\ r.domain = domain
                         /\ decrypt_password_thrown(pm, r.password_encrypted) # "ok"
             failing == SelectSeq(pm.rows, Fails)
         IN  IF failing = <<>> THEN "ok"
             ELSE decrypt_password_thrown(pm, failing[1].password_encrypted)

\* the exception that leaves PasswordManager::get, and with it get_one
vault_get_thrown(pm, domain) ==
    IF pm.use_libsecret THEN "ok" ELSE get_from_sqlite_thrown(pm, domain)

\* PasswordManager::set_master_password (setup_encryption derives the key)
set_master_password(pm, password) ==
    LET named == [pm EXCEPT !.master_password = password]
    IN  IF password # "" /\ ~pm.use_libsecret
        THEN [named EXCEPT !.encryption_key = derive_key(password, VaultSalt)]
        ELSE named

\* PasswordManager::get
vault_get(pm, domain, t) ==
    IF pm.use_libsecret THEN get_from_libsecret(pm, domain, t)
    ELSE get_from_sqlite(pm, domain)

\* PasswordManager::get_one: what it may return, std::sort leaving the order
\* of credentials with equal last_used open; <<>> stands for std::nullopt
get_one(pm, domain, t) ==
    LET creds == vault_get(pm, domain, t)
    IN  IF creds = <<>> THEN {<<>>}
        ELSE {<<c>> : c \in {x \in Range(creds) :
                         \A y \in Range(creds) : x.last_used >= y.last_used}}

\* PasswordManager::has_credentials
has_credentials(pm, domain, t) ==
    IF pm.use_libsecret /\ ~pm.db_open THEN vault_get(pm, domain, t) # <<>>
    ELSE IF ~pm.db_open THEN FALSE
    ELSE \E i \in 1..Len(pm.rows) : pm.rows[i].domain = domain

\* std::string::find: the position, from 0, of the first occurrence of
\* pattern at or after from; -1 stands for npos
FindFrom(text, pattern, from) ==
    LET hits == {i \in from..(Len(text) - Len(pattern)) :
                    SubSeq(text, i + 1, i + Len(pattern)) = pattern}
    IN  IF hits = {} THEN -1 ELSE CHOOSE i \in hits : \A j \in hits : i <= j

\* PasswordManager::extract_domain
extract_domain(url) ==
    LET scheme == FindFrom(url, <<":", "/", "/">>, 0)
        start == IF scheme = -1 THEN 0 ELSE scheme + 3
        slash == FindFrom(url, <<"/">>, start)
        end == IF slash = -1 THEN Len(url) ELSE slash
        domain == SubSeq(url, start + 1, end)
        colon == FindFrom(domain, <<":">>, 0)
    IN  IF colon = -1 THEN domain ELSE SubSeq(domain, 1, colon)

\* PasswordManager::should_autofill, with autofill enabled as the
\* constructor leaves it
should_autofill(pm, origin, t) == has_credentials(pm, extract_domain(origin), t)

\* PasswordManager::delete_from_libsecret and delete_from_sqlite
delete_from_libsecret(pm, domain, username) ==
    LET Other(r) == ~(r.domain = domain /\ r.username = username)
    IN  [pm EXCEPT !.items = SelectSeq(@, Other)]

delete_from_sqlite(pm, domain, username) ==
    LET Other(r) == ~(r.domain = domain /\ r.username = username)
    IN  [pm EXCEPT !.rows = SelectSeq(@, Other)]

\* PasswordManager::delete_credential: the return value and the manager
delete_credential(pm, domain, username) ==
    LET a == IF pm.use_libsecret THEN delete_from_libsecret(pm, domain, username) ELSE pm
        b == IF a.db_open THEN delete_from_sqlite(a, domain, username) ELSE a
    IN  [ok |-> TRUE, pm |-> b]

\* PasswordManager::update_last_used
update_last_used(pm, domain, username, t) ==
    IF ~pm.db_open THEN pm
    ELSE [pm EXCEPT !.rows =
             [i \in 1..Len(@) |->
                 IF @[i].domain = domain /\ @[i].username = username
                 THEN [@[i] EXCEPT !.last_used = ToSeconds(t)] ELSE @[i]]]

\* --------------------------------------------------------- BrowserWindow
\* BrowserWindow::ensure_tab_webview_loaded
ensure_tab_webview_loaded(t_, t) ==
    IF is_loaded(t_) THEN t_ ELSE create_webview(t_, t)

\* what BrowserWindow::show_tab does to the tab it found: restore when it is
\* unloaded, ensure_tab_webview_loaded, get_container, mark_active
shown(t_, t) ==
    LET restored == IF t_.is_unloaded THEN restore(t_, t) ELSE t_
        loaded == ensure_tab_webview_loaded(restored, t)
    IN  mark_active(get_container_from(loaded, t, TRUE), t)

\* BrowserWindow::show_tab without the restore of an unloaded tab
show_tab_without_restore(sm, index, t) ==
    LET g == get_current_workspace(sm, t)
    IN  IF ~HasSession(g) \/ index >= Len(CurSession(g).tabs) THEN g
        ELSE SetCurSession(g, [CurSession(g) EXCEPT !.tabs[index + 1] = mark_active(@, t)])

\* BrowserWindow::show_tab (refresh_ui reads the hierarchy through the
\* accessors and rebuilds the widgets)
show_tab(sm, index, t) ==
    LET g == get_current_workspace(sm, t)
    IN  IF ~HasSession(g) \/ index >= Len(CurSession(g).tabs) THEN g
        ELSE SetCurSession(g, [CurSession(g) EXCEPT !.tabs[index + 1] = shown(@, t)])

\* show_tab(session->get_active_tab_index()) when the current session exists
show_active_tab(sm, t) ==
    LET g == get_current_workspace(sm, t)
    IN  IF HasSession(g) THEN show_tab(g, CurSession(g).active_tab_index, t) ELSE g

\* the same when it also holds a tab
show_active_tab_if_any(sm, t) ==
    LET g == get_current_workspace(sm, t)
    IN  IF HasSession(g) /\ CurSession(g).tabs # <<>>
        THEN show_tab(g, CurSession(g).active_tab_index, t) ELSE g

\* BrowserWindow::new_tab: the tab SessionManager::new_tab returned is the
\* active tab of the current session; with a url it is asked to load it
window_new_tab(sm, url, t) ==
    LET n == show_active_tab(new_tab(sm, IF url = "" THEN BlankUrl ELSE url, t), t)
    IN  IF url = "" THEN n
        ELSE LET loaded == ensure_tab_webview_loaded(CurTab(n), t)
                 got == get_webview(loaded, t)
             IN  SetCurTab(n, IF got.webview THEN [got EXCEPT !.view_uri = url] ELSE got)

\* BrowserWindow::close_current_tab removing the only tab as well
window_close_current_tab_emptying(sm, t) ==
    LET g == get_current_workspace(sm, t)
    IN  IF ~HasSession(g) \/ CurSession(g).tabs = <<>> THEN g
        ELSE show_active_tab_if_any(close_current_tab(g, t), t)

\* BrowserWindow::close_current_tab
window_close_current_tab(sm, t) ==
    LET g == get_current_workspace(sm, t)
    IN  IF ~HasSession(g) \/ CurSession(g).tabs = <<>> THEN g
        ELSE IF Len(CurSession(g).tabs) = 1
        THEN LET blank == [CurTab(g) EXCEPT !.url = BlankUrl]
                 got == get_webview(ensure_tab_webview_loaded(blank, t), t)
                 asked == IF got.webview THEN [got EXCEPT !.view_uri = BlankUrl] ELSE got
             IN  SetCurTab(g, [asked EXCEPT !.title = "New Tab"])
        ELSE show_active_tab_if_any(close_current_tab(g, t), t)

\* BrowserWindow::next_tab
window_next_tab(sm, t) == show_active_tab(next_tab(sm, t), t)

\* BrowserWindow::previous_tab
window_previous_tab(sm, t) == show_active_tab(previous_tab(sm, t), t)

\* BrowserWindow::jump_to_tab
jump_to_tab(sm, index, t) ==
    LET g == get_current_workspace(sm, t)
    IN  IF ~HasSession(g) \/ index >= Len(CurSession(g).tabs) THEN g
        ELSE show_tab(SetCurSession(g, set_active_tab(CurSession(g), index, t)), index, t)

\* BrowserWindow::next_session
window_next_session(sm, t) == show_active_tab_if_any(next_session(sm, t), t)

\* BrowserWindow::previous_session
window_previous_session(sm, t) == show_active_tab_if_any(previous_session(sm, t), t)

\* BrowserWindow::on_tab_close_clicked on the button of the tab at index:
\* the index is kept in the button as a pointer, and the handler returns
\* when that pointer is null, which it is for index 0
on_tab_close_clicked(sm, index, t) ==
    LET g == get_current_workspace(sm, t)
    IN  IF index = 0 THEN sm
        ELSE IF HasSession(g) /\ index < Len(CurSession(g).tabs)
        THEN window_close_current_tab(
                 SetCurSession(g, set_active_tab(CurSession(g), index, t)), t)
        ELSE g

\* ------------------------------------------------- autosave and shutdown
\* PersistenceManager::disable_autosave: g_source_remove when the id is not
\* zero, the id zeroed and the flag cleared.  autosave_sources counts the
\* GLib sources that call autosave_callback
disable_autosave(a) ==
    [a EXCEPT !.autosave_sources = IF a.autosave_timer THEN @ - 1 ELSE @,
              !.autosave_timer = FALSE,
              !.autosave_enabled = FALSE]

\* PersistenceManager::enable_autosave without the disable_autosave it
\* starts with
enable_autosave_adding(a) ==
    [a EXCEPT !.autosave_enabled = TRUE, !.autosave_timer = TRUE,
              !.autosave_sources = @ + 1]

\* PersistenceManager::enable_autosave: disable_autosave, then
\* g_timeout_add_seconds
enable_autosave(a) ==
    [disable_autosave(a) EXCEPT !.autosave_enabled = TRUE, !.autosave_timer = TRUE,
                                !.autosave_sources = @ + 1]

\* PersistenceManager::autosave_callback removing the timer when save_all
\* failed
autosave_callback_until_failure(wss, store, fail) ==
    LET r == save_all(wss, store, fail)
    IN  [ok |-> r.ok, db |-> r.db, keep |-> r.ok]

\* PersistenceManager::autosave_callback: save_all, and TRUE returned to
\* GLib whatever save_all returned
autosave_callback(wss, store, fail) ==
    LET r == save_all(wss, store, fail)
    IN  [ok |-> r.ok, db |-> r.db, keep |-> TRUE]

\* PersistenceManager::setup_encryption that regenerates the salt whether or
\* not there is a salt file
setup_encryption_regenerating(a, password, file, fresh, written) ==
    IF password = "" THEN [ok |-> FALSE, a |-> a, file |-> file]
    ELSE [ok |-> TRUE,
          a |-> [a EXCEPT !.salt = fresh, !.encryption_key = derive_key(password, fresh)],
          file |-> IF written THEN fresh ELSE file]

\* PersistenceManager::setup_encryption on the members a with master_password_
\* password and the salt file file: the return value, the members and the
\* file.  fresh is what random_bytes returns and written whether the new
\* file could be opened for writing
setup_encryption(a, password, file, fresh, written) ==
    IF password = "" THEN [ok |-> FALSE, a |-> a, file |-> file]
    ELSE LET salt == IF file # <<>> THEN file ELSE fresh
         IN  [ok |-> TRUE,
              a |-> [a EXCEPT !.salt = salt, !.encryption_key = derive_key(password, salt)],
              file |-> IF file = <<>> /\ written THEN fresh ELSE file]

\* PersistenceManager::close: the store after sqlite3_close; its rows stay
\* in the file
close(store) == [store EXCEPT !.open = FALSE]

\* ---------------------------------------------------------------- actions
TheSM == SM(workspaces, current_workspace_index)

Op(name, a, n) == [op |-> name, a |-> a, n |-> n]

SetSM(sm) ==
    /\ workspaces' = sm.workspaces
    /\ current_workspace_index' = sm.current_workspace_index

\* salt_file is the file db_path_ + ".salt", empty while there is none
ClosedDb == [open |-> FALSE, workspaces |-> <<>>, sessions |-> <<>>, tabs |-> <<>>,
             ws_seq |-> 0, s_seq |-> 0, saves |-> 0, salt_file |-> <<>>]

\* no message was encrypted yet: the message and key given to encrypt, what
\* it returned, the bytes that reach decrypt, the key given to decrypt and
\* what it returned or threw
NoCrypto ==
    [op |-> "none", plaintext |-> <<>>, key |-> <<>>, encrypted |-> <<>>,
     ciphertext |-> <<>>, dkey |-> <<>>, out |-> Thrown("none")]

\* nothing was asked of the vault yet; saved maps each username to the
\* password of the last save of (VaultDomain, username) that returned true
\* and was not followed by a delete_credential (<<>> when there is none), and
\* used is the username of the last such save or of the last update_last_used
NoVaultLog ==
    [op |-> "none", domain |-> <<>>, username |-> <<>>, ok |-> TRUE, out |-> <<>>,
     saved |-> [u \in Usernames |-> <<>>], used |-> <<>>]

\* no shutdown handler has called save_all yet; otherwise the handler and
\* whether the two timers were registered when it called save_all
NoFinalSave == [by |-> "none", autosave_timer |-> FALSE, unload_timer |-> FALSE]

\* before BrowserWindow::BrowserWindow: no window, a PersistenceManager
\* object as its constructor leaves it (autosave_timer_id_ = 0), no unload
\* timer; ticks counts the autosave ticks, saved holds the hierarchy save_all
\* was last called with and released the one the store was released with
NoApp ==
    [window |-> "none", pm |-> TRUE, autosave_timer |-> FALSE, unload_timer |-> FALSE,
     ticks |-> 0, saved |-> <<>>, released |-> <<>>, final |-> NoFinalSave,
     salt |-> <<>>, encryption_key |-> <<>>, derived |-> {},
     autosave_enabled |-> FALSE, autosave_sources |-> 0, snapshots_enabled |-> FALSE]

\* no operation was called on tab yet; pre is the tab before the last
\* operation and returns what webkit_web_view_new returned each time the
\* operation called it
NoTabLog == [op |-> "none", pre |-> Tab(BlankUrl, StartTime), returns |-> <<>>]

\* state after SessionManager::SessionManager and
\* PersistenceManager::PersistenceManager
InitManagers ==
    /\ now = StartTime
    /\ workspaces = ensure_default_workspace(SM(<<>>, 0), StartTime).workspaces
    /\ current_workspace_index = 0
    /\ master_password = ""
    /\ db = ClosedDb
    /\ crypto = NoCrypto
    /\ vlog = NoVaultLog
    /\ tlog = NoTabLog
    /\ app = NoApp
    /\ last = Op("init", 0, 0)

\* with TabUnloadManager::TabUnloadManager in an environment that sets neither
\* RYXSURF_UNLOAD_TIMEOUT nor RYXSURF_MAX_LOADED_TABS
Init ==
    /\ InitManagers
    /\ unload_timeout_seconds = DefaultUnloadTimeout
    /\ max_loaded_tabs = DefaultMaxLoadedTabs
    /\ vault = PasswordManager(FALSE)
    /\ tab = Tab(BlankUrl, StartTime)

\* with PasswordManager::PasswordManager finding a Secret Service or not
InitVault ==
    /\ InitManagers
    /\ unload_timeout_seconds = DefaultUnloadTimeout
    /\ max_loaded_tabs = DefaultMaxLoadedTabs
    /\ vault \in {PasswordManager(b) : b \in BOOLEAN}
    /\ tab = Tab(BlankUrl, StartTime)

\* with TabUnloadManager::TabUnloadManager in an environment that sets both
InitEvict ==
    /\ InitManagers
    /\ unload_timeout_seconds \in TimeoutValues
    /\ max_loaded_tabs \in MaxLoadedValues
    /\ vault = PasswordManager(FALSE)
    /\ tab = Tab(BlankUrl, StartTime)

\* with a Tab constructed from any of the urls, as Tab tab("https://example.com")
InitTab ==
    /\ InitManagers
    /\ unload_timeout_seconds = DefaultUnloadTimeout
    /\ max_loaded_tabs = DefaultMaxLoadedTabs
    /\ vault = PasswordManager(FALSE)
    /\ tab \in {Tab(url, StartTime) : url \in TabUrls}

Untouched == <<unload_timeout_seconds, max_loaded_tabs, master_password, db, crypto,
               vault, vlog, tab, tlog, app>>

\* the clocks advance
Tick ==
    /\ now < MaxTime
    /\ now' = now + 1
    /\ UNCHANGED <<workspaces, current_workspace_index, Untouched, last>>

\* sizes the bounded model lets the hierarchy reach: MaxTabs tabs and
\* MaxSessions sessions in all, MaxWorkspaces workspaces
RECURSIVE SumSeq(_)
SumSeq(seq) == IF seq = <<>> THEN 0 ELSE seq[1] + SumSeq(Tail(seq))

TabsOfWs(w) == SumSeq([j \in 1..Len(w.sessions) |-> Len(w.sessions[j].tabs)])
TotalSessions == SumSeq([i \in 1..Len(workspaces) |-> Len(workspaces[i].sessions)])
TotalTabs == SumSeq([i \in 1..Len(workspaces) |-> TabsOfWs(workspaces[i])])

RoomForTab(sm) ==
    LET g == get_current_workspace(sm, now)
    IN  /\ TotalTabs < MaxTabs
        /\ HasSession(g) \/ TotalSessions < MaxSessions

NewTab(url) ==
    /\ RoomForTab(TheSM)
    /\ SetSM(new_tab(TheSM, url, now))
    /\ last' = Op("new_tab", 0, 0)
    /\ UNCHANGED <<now, Untouched>>

CloseCurrentTab ==
    /\ SetSM(close_current_tab(TheSM, now))
    /\ last' = Op("close_current_tab", 0, 0)
    /\ UNCHANGED <<now, Untouched>>

SwitchTab(index) ==
    /\ SetSM(switch_tab(TheSM, index, now))
    /\ last' = Op("switch_tab", 0, 0)
    /\ UNCHANGED <<now, Untouched>>

SwitchSession(index) ==
    /\ SetSM(switch_session(TheSM, index, now))
    /\ last' = Op("switch_session", 0, 0)
    /\ UNCHANGED <<now, Untouched>>

SwitchWorkspace(index) ==
    /\ SetSM(switch_workspace(TheSM, index))
    /\ last' = Op("switch_workspace", 0, 0)
    /\ UNCHANGED <<now, Untouched>>

NextTab ==
    /\ SetSM(next_tab(TheSM, now))
    /\ last' = Op("next_tab", 0, 0)
    /\ UNCHANGED <<now, Untouched>>

PreviousTab ==
    /\ SetSM(previous_tab(TheSM, now))
    /\ last' = Op("previous_tab", 0, 0)
    /\ UNCHANGED <<now, Untouched>>

NextSession ==
    /\ SetSM(next_session(TheSM, now))
    /\ last' = Op("next_session", 0, 0)
    /\ UNCHANGED <<now, Untouched>>

PreviousSession ==
    /\ SetSM(previous_session(TheSM, now))
    /\ last' = Op("previous_session", 0, 0)
    /\ UNCHANGED <<now, Untouched>>

AddWorkspace(name) ==
    /\ SetSM(add_workspace(TheSM, name, now))
    /\ last' = Op("add_workspace", 0, 0)
    /\ UNCHANGED <<now, Untouched>>

Reset(create_default) ==
    /\ SetSM(reset(TheSM, create_default, now))
    /\ last' = Op("reset", 0, 0)
    /\ UNCHANGED <<now, Untouched>>

\* Workspace::add_session called on the workspace with index w
AddSession(w, name) ==
    /\ w < Len(workspaces)
    /\ TotalSessions < MaxSessions
    /\ workspaces' = [workspaces EXCEPT ![w + 1] = add_session(@, name, now)]
    /\ last' = Op("add_session", 0, 0)
    /\ UNCHANGED <<current_workspace_index, now, Untouched>>

\* Workspace::remove_session called on the workspace with index w
RemoveSession(w, index) ==
    /\ w < Len(workspaces)
    /\ workspaces' = [workspaces EXCEPT ![w + 1] = remove_session(@, index, now)]
    /\ last' = Op("remove_session", 0, 0)
    /\ UNCHANGED <<current_workspace_index, now, Untouched>>

\* Workspace::set_active_session called on the workspace with index w
SetActiveSession(w, index) ==
    /\ w < Len(workspaces)
    /\ workspaces' = [workspaces EXCEPT ![w + 1] = set_active_session(@, index, now)]
    /\ last' = Op("set_active_session", 0, 0)
    /\ UNCHANGED <<current_workspace_index, now, Untouched>>

\* Session::add_tab called on session s of workspace w
AddTab(w, s, url) ==
    /\ w < Len(workspaces) /\ s < Len(workspaces[w + 1].sessions)
    /\ TotalTabs < MaxTabs
    /\ workspaces' = [workspaces EXCEPT ![w + 1].sessions[s + 1] = add_tab(@, url, now)]
    /\ last' = Op("add_tab", 0, 0)
    /\ UNCHANGED <<current_workspace_index, now, Untouched>>

\* Session::remove_tab called on session s of workspace w
RemoveTab(w, s, index) ==
    /\ w < Len(workspaces) /\ s < Len(workspaces[w + 1].sessions)
    /\ workspaces' = [workspaces EXCEPT ![w + 1].sessions[s + 1] = remove_tab(@, index, now)]
    /\ last' = Op("remove_tab", 0, 0)
    /\ UNCHANGED <<current_workspace_index, now, Untouched>>

\* Session::set_active_tab called on session s of workspace w
SetActiveTab(w, s, index) ==
    /\ w < Len(workspaces) /\ s < Len(workspaces[w + 1].sessions)
    /\ workspaces' = [workspaces EXCEPT ![w + 1].sessions[s + 1] = set_active_tab(@, index, now)]
    /\ last' = Op("set_active_tab", 0, 0)
    /\ UNCHANGED <<current_workspace_index, now, Untouched>>

\* Tab::get_webview called on get_current_tab(), as the window does to show it
GetWebview ==
    LET g == get_current_workspace(TheSM, now)
    IN  /\ HasTab(g)
        /\ SetSM(SetCurTab(g, get_webview(CurTab(g), now)))
        /\ last' = Op("get_webview", 0, 0)
        /\ UNCHANGED <<now, Untouched>>

\* Tab::restore called on get_current_tab()
Restore ==
    LET g == get_current_workspace(TheSM, now)
    IN  /\ HasTab(g)
        /\ SetSM(SetCurTab(g, restore(CurTab(g), now)))
        /\ last' = Op("restore", 0, 0)
        /\ UNCHANGED <<now, Untouched>>

\* the unload timer callback of BrowserWindow: check_and_unload on the current
\* session with its active tab index
UnloadTimer ==
    LET g == get_current_workspace(TheSM, now)
    IN  /\ IF HasSession(g)
           THEN LET s == CurSession(g)
                    a == s.active_tab_index
                IN  \E order \in SortedCandidates(s, a, now, unload_timeout_seconds) :
                        /\ SetSM(SetCurSession(g, check_and_unload(s, a, now,
                                     unload_timeout_seconds, max_loaded_tabs, order)))
                        /\ last' = Op("check_and_unload", a, count_loaded_tabs(s))
           ELSE /\ SetSM(g)
                /\ last' = Op("check_and_unload", 0, 0)
        /\ UNCHANGED <<now, Untouched>>

\* TabUnloadManager::unload_all_except_active on the current session with its
\* active tab index
UnloadAllExceptActive ==
    LET g == get_current_workspace(TheSM, now)
    IN  /\ HasSession(g)
        /\ SetSM(SetCurSession(g, unload_all_except_active(CurSession(g),
                                      CurSession(g).active_tab_index)))
        /\ last' = Op("unload_all_except_active", CurSession(g).active_tab_index,
                      count_loaded_tabs(CurSession(g)))
        /\ UNCHANGED <<now, Untouched>>

\* Tab::set_title called on get_current_tab(), as the title observer does
SetTitle(title) ==
    LET g == get_current_workspace(TheSM, now)
    IN  /\ HasTab(g)
        /\ CurTab(g).title # title
        /\ SetSM(SetCurTab(g, [CurTab(g) EXCEPT !.title = title]))
        /\ last' = Op("set_title", 0, 0)
        /\ UNCHANGED <<now, Untouched>>

\* PersistenceManager::initialize on a manager whose store is not open yet
Initialize(password) ==
    /\ ~db.open
    /\ master_password' = password
    /\ db' = [db EXCEPT !.open = TRUE]
    /\ last' = Op("initialize", 0, 1)
    /\ UNCHANGED <<workspaces, current_workspace_index, now,
                   unload_timeout_seconds, max_loaded_tabs, crypto, vault, vlog,
                   tab, tlog, app>>

\* the inserts save_all attempts, any one of which may fail
FailPoints(wss) ==
    LET saved == {w \in 0..(Len(wss) - 1) : ~is_empty_default(wss[w + 1])}
    IN  {NoFail}
        \cup {[kind |-> "workspace", w |-> w, s |-> 0, t |-> 0] : w \in saved}
        \cup UNION {{[kind |-> "session", w |-> w, s |-> i, t |-> 0] :
                        i \in 0..(Len(wss[w + 1].sessions) - 1)} : w \in saved}
        \cup UNION {UNION {{[kind |-> "tab", w |-> w, s |-> i, t |-> j] :
                        j \in 0..(Len(wss[w + 1].sessions[i + 1].tabs) - 1)} :
                        i \in 0..(Len(wss[w + 1].sessions) - 1)} : w \in saved}

FailCode(fail) ==
    CASE fail.kind = "none" -> 0
      [] fail.kind = "workspace" -> 1
      [] fail.kind = "session" -> 2
      [] fail.kind = "tab" -> 3

\* PersistenceManager::save_all (autosave tick, close request or direct call)
\* in an environment where the inserts of points may fail
SaveAll(points) ==
    /\ db.saves < MaxSaves
    /\ \E fail \in points :
           LET r == save_all(workspaces, db, fail)
           IN  /\ db' = r.db
               /\ last' = Op("save_all", FailCode(fail), IF r.ok THEN 1 ELSE 0)
    /\ UNCHANGED <<workspaces, current_workspace_index, now,
                   unload_timeout_seconds, max_loaded_tabs, master_password, crypto,
                   vault, vlog, tab, tlog, app>>

\* PersistenceManager::load_all in an environment where the failure of
\* sqlite3_prepare_v2 on the workspace query is one of outcomes
LoadAll(outcomes) ==
    /\ \E prepare_fails \in outcomes :
           LET r == load_all(TheSM, db, now, prepare_fails)
           IN  /\ SetSM(r.sm)
               /\ last' = Op("load_all", IF prepare_fails THEN 1 ELSE 0,
                             IF r.ok THEN 1 ELSE 0)
    /\ UNCHANGED <<now, Untouched>>

Hierarchy == <<workspaces, current_workspace_index, now, unload_timeout_seconds,
               max_loaded_tabs, master_password, db, tab, tlog, app, last>>

\* Crypto::encrypt of a message under a key
Encrypt(plaintext, key) ==
    /\ \E nonce \in Nonces :
           LET r == encrypt(plaintext, key, nonce)
           IN  crypto' = [NoCrypto EXCEPT !.op = "encrypt", !.plaintext = plaintext,
                                          !.key = key, !.encrypted = r.data,
                                          !.ciphertext = r.data, !.out = r]
    /\ UNCHANGED <<Hierarchy, vault, vlog>>

\* one byte of the ciphertext is altered between encrypt and decrypt
Alter(index, byte) ==
    /\ crypto.op = "encrypt" /\ crypto.out.status = "ok"
    /\ index < Len(crypto.ciphertext)
    /\ crypto.ciphertext[index + 1] # byte
    /\ crypto' = [crypto EXCEPT !.op = "alter", !.ciphertext[index + 1] = byte]
    /\ UNCHANGED <<Hierarchy, vault, vlog>>

\* Crypto::decrypt of the bytes that arrived, under a key
Decrypt(key) ==
    /\ crypto.op \in {"encrypt", "alter"}
    /\ crypto.encrypted # <<>>
    /\ crypto' = [crypto EXCEPT !.op = "decrypt", !.dkey = key,
                                !.out = decrypt(crypto.ciphertext, key)]
    /\ UNCHANGED <<Hierarchy, vault, vlog>>

NotVault == <<workspaces, current_workspace_index, unload_timeout_seconds,
              max_loaded_tabs, master_password, db, crypto, tab, tlog, app, last>>

\* PasswordManager::initialize on a manager not initialized yet
VaultInitialize(password) ==
    /\ vlog.op = "none"
    /\ vault' = vault_initialize(vault, password)
    /\ vlog' = [vlog EXCEPT !.op = "initialize"]
    /\ UNCHANGED <<now, NotVault>>

\* PasswordManager::save
VaultSave(domain, username, password) ==
    /\ vlog.op # "none"
    /\ \E nonce \in Nonces :
           LET r == vault_save(vault, domain, username, password, nonce, now)
           IN  /\ vault' = r.pm
               /\ vlog' = [vlog EXCEPT !.op = "save", !.domain = domain,
                              !.username = username, !.ok = r.ok, !.out = <<>>,
                              !.saved = IF r.ok /\ domain = VaultDomain
                                        THEN [@ EXCEPT ![username] = password] ELSE @,
                              !.used = IF r.ok /\ domain = VaultDomain
                                       THEN username ELSE @]
    /\ UNCHANGED <<now, NotVault>>

\* PasswordManager::delete_credential
VaultDelete(domain, username) ==
    /\ vlog.op # "none"
    /\ LET r == delete_credential(vault, domain, username)
       IN  /\ vault' = r.pm
           /\ vlog' = [vlog EXCEPT !.op = "delete_credential", !.domain = domain,
                          !.username = username, !.ok = r.ok, !.out = <<>>,
                          !.saved = IF domain = VaultDomain
                                    THEN [@ EXCEPT ![username] = <<>>] ELSE @,
                          !.used = IF domain = VaultDomain /\ @ = username
                                   THEN <<>> ELSE @]
    /\ UNCHANGED <<now, NotVault>>

\* PasswordManager::update_last_used
VaultUpdateLastUsed(domain, username) ==
    /\ vlog.op # "none"
    /\ vault' = update_last_used(vault, domain, username, now)
    /\ vlog' = [vlog EXCEPT !.op = "update_last_used", !.domain = domain,
                   !.username = username, !.ok = TRUE, !.out = <<>>,
                   !.used = IF domain = VaultDomain /\ vlog.saved[username] # <<>>
                            THEN username ELSE @]
    /\ UNCHANGED <<now, NotVault>>

\* PasswordManager::set_master_password
VaultSetMasterPassword(password) ==
    /\ vlog.op # "none"
    /\ vault' = set_master_password(vault, password)
    /\ vlog' = [vlog EXCEPT !.op = "set_master_password", !.domain = <<>>,
                   !.username = <<>>, !.ok = TRUE, !.out = <<>>]
    /\ UNCHANGED <<now, NotVault>>

\* PasswordManager::get; ok says that no exception reached the caller
VaultGet(domain) ==
    /\ vlog.op # "none"
    /\ vlog' = [vlog EXCEPT !.op = "get", !.domain = domain, !.username = <<>>,
                   !.ok = vault_get_thrown(vault, domain) = "ok",
                   !.out = IF vault_get_thrown(vault, domain) = "ok"
                           THEN vault_get(vault, domain, now) ELSE <<>>]
    /\ UNCHANGED <<now, vault, NotVault>>

\* PasswordManager::get_one
VaultGetOne(domain) ==
    /\ vlog.op # "none"
    /\ \E r \in IF vault_get_thrown(vault, domain) = "ok"
                 THEN get_one(vault, domain, now) ELSE {<<>>} :
           vlog' = [vlog EXCEPT !.op = "get_one", !.domain = domain, !.username = <<>>,
                      !.ok = vault_get_thrown(vault, domain) = "ok", !.out = r]
    /\ UNCHANGED <<now, vault, NotVault>>

\* PasswordManager::has_credentials
VaultHasCredentials(domain) ==
    /\ vlog.op # "none"
    /\ vlog' = [vlog EXCEPT !.op = "has_credentials", !.domain = domain,
                   !.username = <<>>, !.ok = has_credentials(vault, domain, now),
                   !.out = <<>>]
    /\ UNCHANGED <<now, vault, NotVault>>

\* PasswordManager::should_autofill
VaultShouldAutofill(origin) ==
    /\ vlog.op # "none"
    /\ vlog' = [vlog EXCEPT !.op = "should_autofill", !.domain = origin,
                   !.username = <<>>, !.ok = should_autofill(vault, origin, now),
                   !.out = <<>>]
    /\ UNCHANGED <<now, vault, NotVault>>

NotTab == <<workspaces, current_workspace_index, unload_timeout_seconds,
            max_loaded_tabs, master_password, db, crypto, vault, vlog, app, last>>

TabOp(name, returns) == [op |-> name, pre |-> tab, returns |-> returns]

\* Tab::create_webview on tab; views are the answers the engine may give
TabCreateWebview(views) ==
    \E view \in views :
        /\ tab' = create_webview_from(tab, now, view)
        /\ tlog' = TabOp("create_webview", IF tab.webview THEN <<>> ELSE <<view>>)
        /\ UNCHANGED <<now, NotTab>>

\* Tab::destroy_webview on tab
TabDestroyWebview ==
    /\ tab' = destroy_webview(tab)
    /\ tlog' = TabOp("destroy_webview", <<>>)
    /\ UNCHANGED <<now, NotTab>>

\* Tab::get_webview on tab
TabGetWebview(views) ==
    \E view \in views :
        /\ tab' = get_webview_from(tab, now, view)
        /\ tlog' = TabOp("get_webview",
                         IF ~tab.webview /\ ~tab.is_unloaded THEN <<view>> ELSE <<>>)
        /\ UNCHANGED <<now, NotTab>>

\* Tab::get_container on tab
TabGetContainer(views) ==
    \E view \in views :
        /\ tab' = get_container_from(tab, now, view)
        /\ tlog' = TabOp("get_container",
                         IF ~tab.container /\ ~tab.is_unloaded /\ ~tab.webview
                         THEN <<view>> ELSE <<>>)
        /\ UNCHANGED <<now, NotTab>>

\* Tab::unload on tab
TabUnload ==
    /\ tab' = unload(tab)
    /\ tlog' = TabOp("unload", <<>>)
    /\ UNCHANGED <<now, NotTab>>

\* Tab::restore on tab; the engine is asked once by create_webview and, if
\* that left no view and the url is to be loaded, once more by get_webview
TabRestore(views) ==
    \E view \in views, again \in views :
        LET first == tab.is_unloaded /\ ~tab.webview
            second == first /\ ~view /\ tab.url # "" /\ tab.url # BlankUrl
        IN  /\ second \/ again = view
            /\ tab' = restore_from(tab, now, view, again)
            /\ tlog' = TabOp("restore", (IF first THEN <<view>> ELSE <<>>)
                                         \o (IF second THEN <<again>> ELSE <<>>))
            /\ UNCHANGED <<now, NotTab>>

\* Tab::mark_active on tab
TabMarkActive ==
    /\ tab' = mark_active(tab, now)
    /\ tlog' = TabOp("mark_active", <<>>)
    /\ UNCHANGED <<now, NotTab>>

\* the page shown in tab's view navigates: webkit_web_view_get_uri reports uri
TabNavigate(uri) ==
    /\ tab.webview
    /\ tab' = [tab EXCEPT !.view_uri = uri]
    /\ tlog' = TabOp("navigate", <<>>)
    /\ UNCHANGED <<now, NotTab>>

\* the notify::title handler connected in Tab::create_webview
TabTitleChanged(title) ==
    /\ tab.webview
    /\ tab' = [tab EXCEPT !.title = title]
    /\ tlog' = TabOp("set_title", <<>>)
    /\ UNCHANGED <<now, NotTab>>

WsIdx == 0..(MaxWorkspaces - 1)
SessIdx == 0..(MaxSessions - 1)

Next ==
    \/ \E url \in Urls : NewTab(url)
    \/ CloseCurrentTab
    \/ \E i \in 0..MaxTabs : SwitchTab(i)
    \/ \E i \in 0..MaxSessions : SwitchSession(i)
    \/ \E i \in 0..MaxWorkspaces : SwitchWorkspace(i)
    \/ NextTab
    \/ PreviousTab
    \/ NextSession
    \/ PreviousSession
    \/ \E name \in WorkspaceNames : Len(workspaces) < MaxWorkspaces /\ AddWorkspace(name)
    \/ \E b \in BOOLEAN : Reset(b)
    \/ \E w \in WsIdx, name \in SessionNames : AddSession(w, name)
    \/ \E w \in WsIdx, i \in 0..MaxSessions : RemoveSession(w, i)
    \/ \E w \in WsIdx, i \in 0..MaxSessions : SetActiveSession(w, i)
    \/ \E w \in WsIdx, s \in SessIdx, url \in Urls : AddTab(w, s, url)
    \/ \E w \in WsIdx, s \in SessIdx, i \in 0..MaxTabs : RemoveTab(w, s, i)
    \/ \E w \in WsIdx, s \in SessIdx, i \in 0..MaxTabs : SetActiveTab(w, s, i)

Spec == Init /\ [][Next]_vars

\* navigation on the current session interleaved with the clock and the sweeps
NextEvict ==
    \/ Tick
    \/ \E url \in Urls : NewTab(url)
    \/ CloseCurrentTab
    \/ \E i \in 0..MaxTabs : SwitchTab(i)
    \/ NextTab
    \/ PreviousTab
    \/ GetWebview
    \/ Restore
    \/ UnloadTimer
    \/ UnloadAllExceptActive

SpecEvict == InitEvict /\ [][NextEvict]_vars

\* the store is opened when the window is constructed; a hierarchy is then
\* built, saved and loaded back: once a transaction is committed the
\* hierarchy changes by load_all only
Building == db.open /\ db.saves = 0

NextPersist ==
    \/ \E password \in Passwords : Initialize(password)
    \/ \E name \in StoredWorkspaceNames :
           Building /\ Len(workspaces) < MaxStoredWorkspaces /\ AddWorkspace(name)
    \/ \E w \in 0..(MaxStoredWorkspaces - 1), name \in SessionNames :
           Building /\ AddSession(w, name)
    \/ \E i \in 0..(MaxStoredWorkspaces - 1) : Building /\ SwitchWorkspace(i)
    \/ \E url \in Urls : Building /\ NewTab(url)
    \/ Building /\ CloseCurrentTab
    \/ \E title \in Titles : Building /\ SetTitle(title)
    \/ SaveAll(FailPoints(workspaces))
    \/ LoadAll(BOOLEAN)

SpecPersist == Init /\ [][NextPersist]_vars

\* the same where no statement of the store fails
NextRoundTrip ==
    \/ \E password \in Passwords : Initialize(password)
    \/ \E name \in StoredWorkspaceNames :
           Building /\ Len(workspaces) < MaxStoredWorkspaces /\ AddWorkspace(name)
    \/ \E w \in 0..(MaxStoredWorkspaces - 1), name \in SessionNames :
           Building /\ AddSession(w, name)
    \/ \E i \in 0..(MaxStoredWorkspaces - 1) : Building /\ SwitchWorkspace(i)
    \/ \E url \in Urls : Building /\ NewTab(url)
    \/ Building /\ CloseCurrentTab
    \/ \E title \in Titles : Building /\ SetTitle(title)
    \/ SaveAll({NoFail})
    \/ LoadAll({FALSE})

SpecRoundTrip == Init /\ [][NextRoundTrip]_vars

\* tabs opened, saved and loaded back while the clocks advance
NextRestoreTime ==
    \/ Tick
    \/ Initialize("")
    \/ \E url \in Urls : Building /\ NewTab(url)
    \/ SaveAll({NoFail})
    \/ LoadAll({FALSE})

SpecRestoreTime == Init /\ [][NextRestoreTime]_vars

\* messages encrypted, altered on the way or not, and decrypted
NextCrypto ==
    \/ \E plaintext \in Messages, key \in CryptoKeys \cup {ShortKey} :
           Encrypt(plaintext, key)
    \/ \E index \in 0..(NONCE_SIZE + MaxMessageLen + ABYTES - 1), byte \in AlteredBytes :
           Alter(index, byte)
    \/ \E key \in CryptoKeys \cup {ShortKey} : Decrypt(key)

SpecCrypto == Init /\ [][NextCrypto]_vars

\* the vault's operations interleaved with the clock
NextVault ==
    \/ Tick
    \/ \E password \in MasterPasswords : VaultInitialize(password)
    \/ \E username \in Usernames, password \in VaultPasswords :
           VaultSave(VaultDomain, username, password)
    \/ \E username \in Usernames : VaultDelete(VaultDomain, username)
    \/ \E username \in Usernames : VaultUpdateLastUsed(VaultDomain, username)
    \/ \E domain \in {VaultDomain, OtherDomain} : VaultGet(domain)
    \/ \E domain \in {VaultDomain, OtherDomain} : VaultGetOne(domain)
    \/ \E domain \in {VaultDomain, OtherDomain} : VaultHasCredentials(domain)

SpecVault == InitVault /\ [][NextVault]_vars

\* the number of sessions of the current workspace of a manager and of tabs
\* of its active session, none when there is no workspace or no session
SessionsOf(sm) == IF sm.workspaces = <<>> THEN 0 ELSE Len(CurWs(sm).sessions)
TabsOf(sm) == IF SessionsOf(sm) = 0 THEN 0 ELSE Len(CurSession(sm).tabs)

\* the tabs of the window that are unloaded
UnloadedTabs ==
    SumSeq([i \in 1..Len(workspaces) |->
              SumSeq([j \in 1..Len(workspaces[i].sessions) |->
                        Cardinality({k \in 1..Len(workspaces[i].sessions[j].tabs) :
                                       workspaces[i].sessions[j].tabs[k].is_unloaded})])])

\* an operation of the window on the hierarchy; last notes how many tabs
\* were unloaded and how many the current session held when it was called
WindowOp(name, sm) ==
    /\ SetSM(sm)
    /\ last' = Op(name, UnloadedTabs, TabsOf(TheSM))
    /\ UNCHANGED <<now, Untouched>>

\* BrowserWindow::new_tab, while the window holds fewer than MaxNavTabs tabs
WindowNewTab(url) ==
    /\ TotalTabs < MaxNavTabs
    /\ WindowOp("window_new_tab", window_new_tab(TheSM, url, now))

\* BrowserWindow::close_current_tab
WindowCloseCurrentTab ==
    WindowOp("window_close_current_tab", window_close_current_tab(TheSM, now))

\* BrowserWindow::next_tab
WindowNextTab == WindowOp("window_next_tab", window_next_tab(TheSM, now))

\* BrowserWindow::previous_tab
WindowPreviousTab == WindowOp("window_previous_tab", window_previous_tab(TheSM, now))

\* BrowserWindow::jump_to_tab
JumpToTab(index) == WindowOp("jump_to_tab", jump_to_tab(TheSM, index, now))

\* BrowserWindow::next_session
WindowNextSession == WindowOp("window_next_session", window_next_session(TheSM, now))

\* BrowserWindow::previous_session
WindowPreviousSession ==
    WindowOp("window_previous_session", window_previous_session(TheSM, now))

\* BrowserWindow::on_tab_close_clicked
TabCloseClicked(index) ==
    WindowOp("on_tab_close_clicked", on_tab_close_clicked(TheSM, index, now))

\* BrowserWindow::BrowserWindow from the initialization of persistence on:
\* initialize, and if it succeeded load_all and enable_autosave; a first tab
\* if the current session has none; the unload timer
BrowserWindowNew(initialized, outcomes) ==
    /\ app.window = "none" /\ app.pm /\ ~db.open
    /\ \E prepare_fails \in outcomes :
           LET opened == IF initialized THEN [db EXCEPT !.open = TRUE] ELSE db
               loaded == IF initialized
                         THEN load_all(TheSM, opened, now, prepare_fails).sm ELSE TheSM
               g == get_current_workspace(loaded, now)
               first == IF HasSession(g) /\ CurSession(g).tabs = <<>>
                        THEN new_tab(g, BlankUrl, now) ELSE g
               timed == IF initialized THEN enable_autosave(app) ELSE app
           IN  /\ db' = opened
               /\ master_password' = ""
               /\ SetSM(first)
               /\ app' = [timed EXCEPT !.window = "shown", !.unload_timer = TRUE]
    /\ last' = Op("BrowserWindow", 0, IF initialized THEN 1 ELSE 0)
    /\ UNCHANGED <<now, unload_timeout_seconds, max_loaded_tabs, crypto, vault, vlog,
                   tab, tlog>>

NotStore == <<workspaces, current_workspace_index, now, unload_timeout_seconds,
              max_loaded_tabs, master_password, crypto, vault, vlog, tab, tlog>>

\* PersistenceManager::enable_autosave; last notes whether a timer was
\* registered when it was called
EnableAutosave ==
    /\ app.pm
    /\ app' = enable_autosave(app)
    /\ last' = Op("enable_autosave", 0, IF app.autosave_timer THEN 1 ELSE 0)
    /\ UNCHANGED <<db, NotStore>>

\* PersistenceManager::disable_autosave
DisableAutosave ==
    /\ app.pm
    /\ app' = disable_autosave(app)
    /\ last' = Op("disable_autosave", 0, 0)
    /\ UNCHANGED <<db, NotStore>>

\* the autosave timer fires: PersistenceManager::autosave_callback in an
\* environment where the inserts of points may fail
AutosaveTick(points) ==
    /\ app.autosave_sources > 0
    /\ app.ticks < MaxTicks
    /\ \E fail \in points :
           LET r == autosave_callback(workspaces, db, fail)
           IN  /\ db' = r.db
               /\ app' = [app EXCEPT !.autosave_timer = r.keep, !.ticks = @ + 1,
                                     !.autosave_sources = IF r.keep THEN @ ELSE @ - 1,
                                     !.saved = <<workspaces>>]
               /\ last' = Op("autosave", FailCode(fail), IF r.ok THEN 1 ELSE 0)
    /\ UNCHANGED NotStore

\* the unload timer of BrowserWindow fires
SweepTick ==
    /\ app.unload_timer
    /\ UnloadTimer

\* PersistenceManager::close
Close ==
    /\ app.pm
    /\ db' = close(db)
    /\ app' = [disable_autosave(app) EXCEPT
                   !.released = IF db.open THEN <<workspaces>> ELSE @]
    /\ last' = Op("close", 0, 0)
    /\ UNCHANGED NotStore

\* the members after a key was derived: derived collects each passphrase
\* with the key it gave while the salt was on file
Derived(a, password, file) ==
    IF password # "" /\ file # <<>>
    THEN [a EXCEPT !.derived = @ \cup {<<password, a.encryption_key>>}]
    ELSE a

\* PersistenceManager::initialize with the salt file and the key it leaves:
\* setup_encryption for a passphrase, then the store is opened
InitializeSalted(password, fresh, written) ==
    /\ app.pm /\ ~db.open
    /\ LET set == setup_encryption(app, password, db.salt_file, fresh, written)
       IN  /\ master_password' = password
           /\ IF password # "" /\ ~set.ok
              THEN /\ db' = [db EXCEPT !.salt_file = set.file]
                   /\ app' = set.a
                   /\ last' = Op("initialize", 0, 0)
              ELSE /\ db' = [db EXCEPT !.open = TRUE, !.salt_file = set.file]
                   /\ app' = Derived(set.a, password, set.file)
                   /\ last' = Op("initialize", 0, 1)
    /\ UNCHANGED <<workspaces, current_workspace_index, now, unload_timeout_seconds,
                   max_loaded_tabs, crypto, vault, vlog, tab, tlog>>

\* PersistenceManager::set_master_password
SetMasterPassword(password, fresh, written) ==
    /\ app.pm
    /\ LET set == setup_encryption(app, password, db.salt_file, fresh, written)
       IN  /\ master_password' = password
           /\ db' = [db EXCEPT !.salt_file = set.file]
           /\ app' = IF password # "" THEN Derived(set.a, password, set.file)
                     ELSE [app EXCEPT !.encryption_key = <<>>, !.salt = <<>>]
    /\ last' = Op("set_master_password", 0, 0)
    /\ UNCHANGED <<workspaces, current_workspace_index, now, unload_timeout_seconds,
                   max_loaded_tabs, crypto, vault, vlog, tab, tlog>>

\* PersistenceManager::~PersistenceManager on a manager no window owns
DeletePersistenceManager ==
    /\ app.pm /\ app.window = "none"
    /\ db' = close(db)
    /\ app' = [disable_autosave(disable_autosave(app)) EXCEPT
                   !.pm = FALSE,
                   !.released = IF db.open THEN <<workspaces>> ELSE @]
    /\ last' = Op("~PersistenceManager", 0, 0)
    /\ UNCHANGED NotStore

\* the close-request handler of the window: save_all, gtk_window_destroy
CloseRequest(points) ==
    /\ app.window = "shown"
    /\ \E fail \in points :
           LET r == save_all(workspaces, db, fail)
           IN  /\ db' = r.db
               /\ app' = [app EXCEPT
                              !.window = "destroyed",
                              !.saved = <<workspaces>>,
                              !.final = [by |-> "close-request",
                                         autosave_timer |-> app.autosave_timer,
                                         unload_timer |-> app.unload_timer]]
               /\ last' = Op("close-request", FailCode(fail), IF r.ok THEN 1 ELSE 0)
    /\ UNCHANGED NotStore

\* BrowserWindow::~BrowserWindow: save_all, close, the unload timer removed,
\* the window destroyed, and then the members' destructors
DeleteBrowserWindow(points) ==
    /\ app.window # "none" /\ app.pm
    /\ \E fail \in points :
           LET r == save_all(workspaces, db, fail)
           IN  /\ db' = close(r.db)
               /\ app' = [disable_autosave(app) EXCEPT
                              !.window = "destroyed",
                              !.pm = FALSE,
                              !.unload_timer = FALSE,
                              !.saved = <<workspaces>>,
                              !.released = IF db.open THEN <<workspaces>> ELSE @,
                              !.final = [by |-> "~BrowserWindow",
                                         autosave_timer |-> app.autosave_timer,
                                         unload_timer |-> app.unload_timer]]
               /\ last' = Op("~BrowserWindow", FailCode(fail), IF r.ok THEN 1 ELSE 0)
    /\ UNCHANGED NotStore

\* a PersistenceManager used by itself or by a BrowserWindow: tabs opened,
\* the timers firing, and the ways it is shut down
NextApp ==
    \/ \E initialized \in BOOLEAN : BrowserWindowNew(initialized, BOOLEAN)
    \/ app.pm /\ app.window = "none" /\ Initialize("")
    \/ \E url \in Urls : app.window # "destroyed" /\ NewTab(url)
    \/ EnableAutosave
    \/ DisableAutosave
    \/ AutosaveTick(FailPoints(workspaces))
    \/ SweepTick
    \/ Close
    \/ DeletePersistenceManager
    \/ CloseRequest(FailPoints(workspaces))
    \/ DeleteBrowserWindow(FailPoints(workspaces))

SpecApp == Init /\ [][NextApp]_vars

\* a hierarchy in which the current workspace, the active session and the
\* active tab are changed before the autosave timer saves it, and which is
\* then loaded back
NextReload ==
    \/ Initialize("")
    \/ EnableAutosave
    \/ \E name \in StoredWorkspaceNames :
           Building /\ Len(workspaces) < MaxStoredWorkspaces /\ AddWorkspace(name)
    \/ \E w \in 0..(MaxStoredWorkspaces - 1), name \in SessionNames :
           Building /\ AddSession(w, name)
    \/ \E i \in 0..(MaxStoredWorkspaces - 1) : Building /\ SwitchWorkspace(i)
    \/ \E url \in Urls : Building /\ NewTab(url)
    \/ \E i \in 0..MaxSessions : Building /\ SwitchSession(i)
    \/ \E i \in 0..MaxTabs : Building /\ SwitchTab(i)
    \/ db.saves < MaxSaves /\ AutosaveTick({NoFail})
    \/ LoadAll({FALSE})

SpecReload == Init /\ [][NextReload]_vars

\* the passphrases a store is opened with
Passphrases == MasterPasswords \cup {"other"}

\* a store that is opened, given other passphrases, closed and opened again
NextSalt ==
    \/ \E password \in Passphrases, fresh \in Salts, written \in BOOLEAN :
           InitializeSalted(password, fresh, written)
    \/ \E password \in Passphrases, fresh \in Salts, written \in BOOLEAN :
           SetMasterPassword(password, fresh, written)
    \/ Close

SpecSalt == Init /\ [][NextSalt]_vars

\* the vault's operations called with a host and with a url of that host
NextVaultUrl ==
    \/ Tick
    \/ \E password \in MasterPasswords : VaultInitialize(password)
    \/ \E domain \in {VaultDomain, UrlDomain} : VaultSave(domain, Alice, <<"p">>)
    \/ \E domain \in {VaultDomain, UrlDomain} : VaultDelete(domain, Alice)
    \/ \E domain \in {VaultDomain, UrlDomain} : VaultGet(domain)
    \/ \E domain \in {VaultDomain, UrlDomain} : VaultGetOne(domain)
    \/ \E domain \in {VaultDomain, UrlDomain} : VaultHasCredentials(domain)
    \/ \E origin \in {VaultDomain, UrlDomain} : VaultShouldAutofill(origin)

SpecVaultUrl == InitVault /\ [][NextVaultUrl]_vars

\* a vault whose master passphrase is set and changed between saves and
\* lookups
NextVaultKey ==
    \/ \E password \in MasterPasswords : VaultInitialize(password)
    \/ \E password \in MasterPasswords \cup {"other"} : VaultSetMasterPassword(password)
    \/ \E username \in Usernames : VaultSave(VaultDomain, username, <<"p">>)
    \/ \E username \in Usernames : VaultDelete(VaultDomain, username)
    \/ VaultGet(VaultDomain)
    \/ VaultGetOne(VaultDomain)

SpecVaultKey == InitVault /\ [][NextVaultKey]_vars

\* the hierarchy emptied, loaded and rebuilt: reset, load_all with the store
\* closed or open and its query failing or not, and the calls that build
NextDefault ==
    \/ Initialize("")
    \/ \E b \in BOOLEAN : Reset(b)
    \/ LoadAll(BOOLEAN)
    \/ SaveAll({NoFail})
    \/ \E url \in Urls : NewTab(url)
    \/ CloseCurrentTab
    \/ \E name \in WorkspaceNames : Len(workspaces) < MaxWorkspaces /\ AddWorkspace(name)
    \/ \E i \in 0..MaxWorkspaces : SwitchWorkspace(i)
    \/ \E w \in WsIdx, i \in 0..MaxSessions : RemoveSession(w, i)

SpecDefault == Init /\ [][NextDefault]_vars

\* n calls of SessionManager::new_tab
RECURSIVE NewTabs(_, _, _)
NewTabs(sm, n, t) ==
    IF n = 0 THEN sm ELSE NewTabs(new_tab(sm, ExampleUrl, t), n - 1, t)

\* a manager after its construction and then, for each number of counts in
\* turn, Workspace::add_session on the current workspace followed by that
\* many calls of new_tab
RECURSIVE Opened(_, _)
Opened(counts, t) ==
    IF counts = <<>> THEN ensure_default_workspace(SM(<<>>, 0), t)
    ELSE LET before == Opened(SubSeq(counts, 1, Len(counts) - 1), t)
             added == SetCurWs(before, add_session(CurWs(before), "Session 1", t))
         IN  NewTabs(added, counts[Len(counts)], t)

\* up to MaxNavSessions sessions added, MaxNavTabs tabs opened in all
NavCounts ==
    {c \in UNION {[1..k -> 0..MaxNavTabs] : k \in 0..MaxNavSessions} :
        SumSeq(c) <= MaxNavTabs}

\* a manager in which sessions were added and tabs opened
InitNav ==
    /\ now = StartTime
    /\ \E counts \in NavCounts :
           /\ workspaces = Opened(counts, StartTime).workspaces
           /\ current_workspace_index = Opened(counts, StartTime).current_workspace_index
    /\ unload_timeout_seconds = DefaultUnloadTimeout
    /\ max_loaded_tabs = DefaultMaxLoadedTabs
    /\ master_password = ""
    /\ db = ClosedDb
    /\ crypto = NoCrypto
    /\ vault = PasswordManager(FALSE)
    /\ vlog = NoVaultLog
    /\ tab = Tab(BlankUrl, StartTime)
    /\ tlog = NoTabLog
    /\ app = NoApp
    /\ last = Op("init", 0, 0)

\* a manager with one session of up to MaxNavTabs tabs and a TabUnloadManager
\* in an environment that sets its timeout and its cap
InitSweep ==
    /\ now = StartTime
    /\ \E n \in 1..MaxNavTabs :
           /\ workspaces = Opened(<<n>>, StartTime).workspaces
           /\ current_workspace_index = Opened(<<n>>, StartTime).current_workspace_index
    /\ unload_timeout_seconds \in TimeoutValues
    /\ max_loaded_tabs \in MaxLoadedValues
    /\ master_password = ""
    /\ db = ClosedDb
    /\ crypto = NoCrypto
    /\ vault = PasswordManager(FALSE)
    /\ vlog = NoVaultLog
    /\ tab = Tab(BlankUrl, StartTime)
    /\ tlog = NoTabLog
    /\ app = NoApp
    /\ last = Op("init", 0, 0)

\* tabs shown one after the other while the clock advances and the unload
\* timer fires
NextSweep ==
    \/ now < MaxSweepTime /\ Tick
    \/ \E i \in 0..MaxNavTabs : SwitchTab(i)
    \/ GetWebview
    \/ Restore
    \/ UnloadTimer

SpecSweep == InitSweep /\ [][NextSweep]_vars

\* sessions that were opened are switched to and removed, and so are the
\* tabs of the active session, by any index, while the clock advances
NextRemove ==
    \/ now < MaxRemoveTime /\ Tick
    \/ \E i \in 0..MaxNavTabs : SwitchTab(i)
    \/ \E i \in 0..MaxNavSessions : SwitchSession(i)
    \/ \E i \in 0..MaxNavTabs : RemoveTab(0, CurWs(TheSM).active_session_index, i)
    \/ \E i \in 0..MaxNavSessions : RemoveSession(0, i)

SpecRemove == InitNav /\ [][NextRemove]_vars

\* n calls of BrowserWindow::new_tab
RECURSIVE WindowNewTabs(_, _, _)
WindowNewTabs(sm, n, t) ==
    IF n = 0 THEN sm ELSE WindowNewTabs(window_new_tab(sm, ExampleUrl, t), n - 1, t)

\* a manager after its construction and then, for each number of counts in
\* turn, Workspace::add_session on the current workspace followed by that
\* many calls of BrowserWindow::new_tab
RECURSIVE WindowOpened(_, _)
WindowOpened(counts, t) ==
    IF counts = <<>> THEN ensure_default_workspace(SM(<<>>, 0), t)
    ELSE LET before == WindowOpened(SubSeq(counts, 1, Len(counts) - 1), t)
             added == SetCurWs(before, add_session(CurWs(before), "Session 1", t))
         IN  WindowNewTabs(added, counts[Len(counts)], t)

\* a window in which MaxNavSessions sessions were added, each with a tab and
\* MaxNavTabs tabs in all, and a TabUnloadManager in an environment that
\* sets its timeout and its cap
InitFrame ==
    /\ now = StartTime
    /\ \E counts \in {c \in NavCounts : /\ Len(c) = MaxNavSessions
                                        /\ SumSeq(c) = MaxNavTabs
                                        /\ \A k \in 1..Len(c) : c[k] > 0} :
           /\ workspaces = WindowOpened(counts, StartTime).workspaces
           /\ current_workspace_index = WindowOpened(counts, StartTime).current_workspace_index
    /\ unload_timeout_seconds \in TimeoutValues
    /\ max_loaded_tabs \in MaxLoadedValues
    /\ master_password = ""
    /\ db = ClosedDb
    /\ crypto = NoCrypto
    /\ vault = PasswordManager(FALSE)
    /\ vlog = NoVaultLog
    /\ tab = Tab(BlankUrl, StartTime)
    /\ tlog = NoTabLog
    /\ app = NoApp
    /\ last = Op("init", 0, 0)

\* the tabs of the current session shown one after the other while the
\* clock advances, and the two sweeps on that session
NextFrame ==
    \/ now < MaxSweepTime /\ Tick
    \/ \E i \in 0..MaxNavTabs : JumpToTab(i)
    \/ UnloadTimer
    \/ UnloadAllExceptActive

SpecFrame == InitFrame /\ [][NextFrame]_vars

\* the sessions a window was opened with: two, one of them with two tabs
WindowCounts == {<<1, 2>>, <<2, 1>>}

\* a window with these sessions and a TabUnloadManager whose timeout is
\* either zero, so that every tab in the background counts as idle at once,
\* or the default, which no tab reaches here
InitWindow ==
    /\ now = StartTime
    /\ \E counts \in WindowCounts :
           /\ workspaces = WindowOpened(counts, StartTime).workspaces
           /\ current_workspace_index = WindowOpened(counts, StartTime).current_workspace_index
    /\ unload_timeout_seconds \in {0, DefaultUnloadTimeout}
    /\ max_loaded_tabs \in MaxLoadedValues
    /\ master_password = ""
    /\ db = ClosedDb
    /\ crypto = NoCrypto
    /\ vault = PasswordManager(FALSE)
    /\ vlog = NoVaultLog
    /\ tab = Tab(BlankUrl, StartTime)
    /\ tlog = NoTabLog
    /\ app = NoApp
    /\ last = Op("init", 0, 0)

\* the operations of the window on its tabs and sessions while the unload
\* timer fires
NextWindow ==
    \/ \E url \in Urls \cup {""} : WindowNewTab(url)
    \/ WindowCloseCurrentTab
    \/ WindowNextTab
    \/ WindowPreviousTab
    \/ \E i \in 0..MaxNavTabs : JumpToTab(i)
    \/ WindowNextSession
    \/ WindowPreviousSession
    \/ \E i \in 0..MaxNavTabs : TabCloseClicked(i)
    \/ UnloadTimer

SpecWindow == InitWindow /\ [][NextWindow]_vars

\* the same window in an environment that enables snapshots or not
\* (RYXSURF_ENABLE_SNAPSHOTS)
InitSnapshot ==
    /\ now = StartTime
    /\ \E counts \in WindowCounts :
           /\ workspaces = WindowOpened(counts, StartTime).workspaces
           /\ current_workspace_index = WindowOpened(counts, StartTime).current_workspace_index
    /\ unload_timeout_seconds \in {0, DefaultUnloadTimeout}
    /\ max_loaded_tabs \in MaxLoadedValues
    /\ master_password = ""
    /\ db = ClosedDb
    /\ crypto = NoCrypto
    /\ vault = PasswordManager(FALSE)
    /\ vlog = NoVaultLog
    /\ tab = Tab(BlankUrl, StartTime)
    /\ tlog = NoTabLog
    /\ \E enabled \in BOOLEAN : app = [NoApp EXCEPT !.snapshots_enabled = enabled]
    /\ last = Op("init", 0, 0)

\* tabs and sessions shown, the two sweeps, and the hierarchy saved
NextSnapshot ==
    \/ \E i \in 0..MaxNavTabs : JumpToTab(i)
    \/ WindowNextSession
    \/ UnloadTimer
    \/ UnloadAllExceptActive
    \/ Initialize("")
    \/ SaveAll({NoFail})

SpecSnapshot == InitSnapshot /\ [][NextSnapshot]_vars

\* moving between the tabs and sessions that were opened, and closing them
NextNav ==
    \/ NextTab
    \/ PreviousTab
    \/ NextSession
    \/ PreviousSession
    \/ \E i \in 0..MaxNavTabs : SwitchTab(i)
    \/ \E i \in 0..MaxNavSessions + 1 : SwitchSession(i)
    \/ CloseCurrentTab
    \/ \E i \in 0..MaxNavSessions : RemoveSession(0, i)
    \/ \E b \in BOOLEAN : Reset(b)

SpecNav == InitNav /\ [][NextNav]_vars

\* the operations of one Tab, the page in its view and the clock; views are
\* the answers of webkit_web_view_new
NextTabWith(views) ==
    \/ Tick
    \/ TabCreateWebview(views)
    \/ TabDestroyWebview
    \/ TabGetWebview(views)
    \/ TabGetContainer(views)
    \/ TabUnload
    \/ TabRestore(views)
    \/ TabMarkActive
    \/ TabNavigate(PageUrl)
    \/ \E title \in Titles : TabTitleChanged(title)

\* with an engine that supplies every view asked for
SpecTab == InitTab /\ [][NextTabWith({TRUE})]_vars

\* with an engine that may return no view
SpecTabEngine == InitTab /\ [][NextTabWith(BOOLEAN)]_vars

\* ------------------------------------------------------------------ claims
AllSessions ==
    {workspaces[w].sessions[i] : <<w, i>> \in
        {p \in (1..Len(workspaces)) \X (1..MaxSessions + 1) :
            p[2] <= Len(workspaces[p[1]].sessions)}}

IndexInRange(index, count) ==
    IF count > 0 THEN index >= 0 /\ index < count ELSE index = 0

\* C1: after any sequence of add / remove / set-active operations, each
\* session's active_tab_index is below its tab count when it has tabs and 0
\* when it has none, and likewise each workspace's active_session_index.
C1_ActiveIndexInRange ==
    /\ \A w \in 1..Len(workspaces) :
           IndexInRange(workspaces[w].active_session_index, Len(workspaces[w].sessions))
    /\ \A s \in AllSessions : IndexInRange(s.active_tab_index, Len(s.tabs))

\* a removal has just left a session without tabs next to a session whose
\* active tab is its last one
C1_Witness ==
    /\ last.op \in {"remove_tab", "close_current_tab", "remove_session"}
    /\ \E s \in AllSessions : s.tabs = <<>>
    /\ \E s \in AllSessions : s.tabs # <<>> /\ s.active_tab_index = Len(s.tabs) - 1

IsSweep(l) == l.op \in {"check_and_unload", "unload_all_except_active"}

IdleSeconds(t_) == (now - t_.last_active) \div TicksPerSec

\* C2: a sweep called with the session's active tab index leaves the tab at
\* that index as it was; it is never unloaded, whatever the loaded count, the
\* cap, the timeout and the tab's idle time.
C2_SweepSparesActiveTab ==
    [][(IsSweep(last') /\ HasTab(TheSM)) =>
          CurSession(TheSM)'.tabs[last'.a + 1] = CurSession(TheSM).tabs[last'.a + 1]]_vars

\* a sweep has just unloaded another tab while the active tab was loaded and
\* idle for at least the timeout
C2_Witness ==
    /\ last.op = "check_and_unload"
    /\ HasTab(TheSM)
    /\ last.a = CurSession(TheSM).active_tab_index
    /\ is_loaded(CurTab(TheSM))
    /\ IdleSeconds(CurTab(TheSM)) >= unload_timeout_seconds
    /\ \E i \in 1..Len(CurSession(TheSM).tabs) :
           /\ CurSession(TheSM).tabs[i].is_unloaded
           /\ CurSession(TheSM).tabs[i].last_active >= CurTab(TheSM).last_active

\* C3: if more than max_loaded_tabs tabs of the session are loaded when
\* check_and_unload starts, at most max_loaded_tabs are loaded when it returns.
C3_SweepEnforcesCap ==
    (last.op = "check_and_unload" /\ HasSession(TheSM) /\ last.n > max_loaded_tabs)
        => count_loaded_tabs(CurSession(TheSM)) <= max_loaded_tabs

\* the tabs a step unloads, and the tabs eligible whatever their idle time
UnloadedByStep(pre, post) ==
    {i \in 1..Len(pre.tabs) : ~pre.tabs[i].is_unloaded /\ post.tabs[i].is_unloaded}

EligibleAnyIdle(s, a) ==
    {i \in 1..Len(s.tabs) :
        (i - 1) # a /\ is_loaded(s.tabs[i]) /\ ~s.tabs[i].is_unloaded}

\* C4: over the cap, check_and_unload unloads exactly the loaded_count -
\* max_loaded_tabs eligible tabs with the oldest last_active, a tab being
\* eligible when it is loaded, not active and not unloaded, however short it
\* has been idle.
C4_OverCapUnloadsOldestEligible ==
    [][(last'.op = "check_and_unload" /\ now' = now /\ HasSession(TheSM)
        /\ count_loaded_tabs(CurSession(TheSM)) > max_loaded_tabs) =>
          LET pre == CurSession(TheSM)
              post == CurSession(TheSM)'
              E == EligibleAnyIdle(pre, last'.a)
              U == UnloadedByStep(pre, post)
          IN  /\ U \subseteq E
              /\ Cardinality(U) = count_loaded_tabs(pre) - max_loaded_tabs
              /\ \A u \in U, e \in E \ U :
                     pre.tabs[u].last_active <= pre.tabs[e].last_active]_vars

\* C5: new_tab(url) on the empty Overview session creates a new non-overview
\* session in the current workspace holding just the new tab, which becomes
\* the current tab, and leaves the Overview session empty and flagged.
C5_NewTabOnOverviewCreatesSession ==
    [][(last'.op = "new_tab" /\ workspaces # <<>> /\ HasSession(TheSM)
        /\ CurSession(TheSM).is_overview /\ CurSession(TheSM).tabs = <<>>) =>
          LET pre == CurWs(TheSM)
              post == CurWs(TheSM)'
              ov == pre.active_session_index + 1
          IN  /\ Len(post.sessions) = Len(pre.sessions) + 1
              /\ post.sessions[ov].is_overview /\ post.sessions[ov].tabs = <<>>
              /\ ~CurSession(TheSM)'.is_overview
              /\ Len(CurSession(TheSM)'.tabs) = 1
              /\ CurTab(TheSM)'.url \in Urls]_vars

\* C6: when close_current_tab removes the last tab of a session that was not
\* the Overview session, the session is removed from its workspace; an empty
\* Overview session is never removed.
C6_CloseLastTabRemovesSession ==
    [][(last'.op = "close_current_tab" /\ workspaces # <<>> /\ HasSession(TheSM)) =>
          LET pre == CurWs(TheSM)
              post == CurWs(TheSM)'
              s == CurSession(TheSM)
          IN  /\ (Len(s.tabs) = 1 /\ ~s.is_overview) =>
                     Len(post.sessions) = Len(pre.sessions) - 1
              /\ (s.tabs = <<>> /\ s.is_overview) =>
                     Len(post.sessions) = Len(pre.sessions)]_vars

\* what C7 compares: workspace names, session names and overview flags, tab
\* urls and titles, each in order
TabShape(t_) == [url |-> t_.url, title |-> t_.title]

SessionShape(s) ==
    [name |-> s.name, is_overview |-> s.is_overview,
     tabs |-> [j \in 1..Len(s.tabs) |-> TabShape(s.tabs[j])]]

WorkspaceShape(w) ==
    [name |-> w.name,
     sessions |-> [i \in 1..Len(w.sessions) |-> SessionShape(w.sessions[i])]]

Shape(wss) == [k \in 1..Len(wss) |-> WorkspaceShape(wss[k])]

\* a load_all that succeeds right after a save_all that succeeded with no
\* failing insert; the hierarchy before the step is the one that was saved
RoundTripStep ==
    /\ last.op = "save_all" /\ last.a = 0 /\ last.n = 1
    /\ last'.op = "load_all" /\ last'.a = 0 /\ last'.n = 1

\* C7 as stated: save_all followed by load_all yields the same workspace
\* names, session names and overview flags, and tab urls and titles, for every
\* reachable hierarchy.
C7_RoundTripReproducesAll ==
    [][RoundTripStep => Shape(workspaces') = Shape(workspaces)]_vars

\* a workspace still as the manager created it: named Main, holding only the
\* empty Overview session
UntouchedDefault(w) ==
    /\ w.name = "Main"
    /\ Len(w.sessions) = 1
    /\ w.sessions[1].is_overview
    /\ w.sessions[1].tabs = <<>>

DefaultShape ==
    <<[name |-> "Main",
       sessions |-> <<[name |-> "Overview", is_overview |-> TRUE, tabs |-> <<>>]>>]>>

DistinctNames(wss) ==
    /\ \A i, j \in 1..Len(wss) : wss[i].name = wss[j].name => i = j
    /\ \A k \in 1..Len(wss) : \A i, j \in 1..Len(wss[k].sessions) :
           wss[k].sessions[i].name = wss[k].sessions[j].name => i = j

\* C7 (amended): for a hierarchy whose workspace names are pairwise distinct
\* and whose session names are distinct within each workspace, save_all
\* followed by load_all yields the names, overview flags, urls and titles of
\* the workspaces that are not an untouched default workspace, in order, or
\* those of the default Main / Overview pair when no workspace is left.
C7_RoundTripReproducesTouched ==
    [][(RoundTripStep /\ DistinctNames(workspaces)) =>
          LET Touched(w) == ~UntouchedDefault(w)
              kept == SelectSeq(workspaces, Touched)
          IN  Shape(workspaces') = IF kept = <<>> THEN DefaultShape ELSE Shape(kept)]_vars

\* a hierarchy was loaded back without its untouched default workspace, with
\* a session whose two tabs carry different titles
C7_Witness ==
    /\ last.op = "load_all" /\ last.a = 0 /\ last.n = 1
    /\ db.saves >= 1
    /\ Len(db.workspaces) = Len(workspaces)
    /\ workspaces[1].name # "Main"
    /\ \E s \in AllSessions :
           Len(s.tabs) = 2 /\ s.tabs[1].title \in Titles /\ s.tabs[2].title \notin Titles

Abs(x) == IF x < 0 THEN -x ELSE x

WithinOneSecond(a, b) == Abs(a - b) <= TicksPerSec

\* C8: after save_all followed by load_all at any later time, the created_at
\* and updated_at of every restored workspace and session and the wall-clock
\* last-active time of every restored tab are within one second of the values
\* held at save time.
\* (Every workspace of the hierarchy was stored and is restored in place.)
C8_TimestampsWithinOneSecond ==
    [][(RoundTripStep /\ Len(db.workspaces) = Len(workspaces)
        /\ Shape(workspaces') = Shape(workspaces)) =>
          \A k \in 1..Len(workspaces) :
              LET pre == workspaces[k]
                  post == workspaces'[k]
              IN  /\ WithinOneSecond(post.created_at, pre.created_at)
                  /\ WithinOneSecond(post.updated_at, pre.updated_at)
                  /\ \A i \in 1..Len(pre.sessions) :
                         /\ WithinOneSecond(post.sessions[i].created_at,
                                            pre.sessions[i].created_at)
                         /\ WithinOneSecond(post.sessions[i].updated_at,
                                            pre.sessions[i].updated_at)
                         /\ \A j \in 1..Len(pre.sessions[i].tabs) :
                                WithinOneSecond(
                                    post.sessions[i].tabs[j].last_active_system,
                                    pre.sessions[i].tabs[j].last_active_system)]_vars

\* C9: when an insert of a workspace, session or tab row fails during
\* save_all, the store holds afterwards exactly the rows it held before, and
\* save_all reports failure.
C9_FailedSaveRollsBack ==
    [][(last'.op = "save_all" /\ last'.a # 0) =>
          /\ last'.n = 0
          /\ db'.workspaces = db.workspaces
          /\ db'.sessions = db.sessions
          /\ db'.tabs = db.tabs]_vars

\* the text cells of the store
PayloadCells ==
    {r.name : r \in Range(db.workspaces)}
        \cup {r.name : r \in Range(db.sessions)}
        \cup UNION {{r.url, r.title, r.snapshot_path} : r \in Range(db.tabs)}

\* C10: when the store was initialized with a non-empty master passphrase,
\* every payload value save_all writes is ciphertext, never plaintext.
C10_PayloadEncryptedUnderPassphrase ==
    master_password # "" => \A cell \in PayloadCells : cell.enc

\* C11: for every message, the empty one included, and every valid key,
\* decrypt(encrypt(m, k), k) returns exactly m, whatever nonce encrypt drew.
C11_DecryptInvertsEncrypt ==
    (/\ crypto.op = "decrypt"
     /\ crypto.ciphertext = crypto.encrypted
     /\ crypto.key \in CryptoKeys
     /\ crypto.dkey = crypto.key)
        => crypto.out = Returned(crypto.plaintext)

\* a message of the greatest length came back from decrypt, its encrypted
\* bytes differing from it
C11_Witness ==
    /\ crypto.op = "decrypt"
    /\ crypto.ciphertext = crypto.encrypted
    /\ crypto.dkey = crypto.key
    /\ crypto.out.status = "ok"
    /\ Len(crypto.plaintext) = MaxMessageLen
    /\ Numbers(SubSeq(crypto.encrypted, NONCE_SIZE + 1, NONCE_SIZE + MaxMessageLen))
           # crypto.plaintext

\* C12: decrypt under a valid key other than the one used to encrypt, or of
\* a ciphertext whose bytes were altered after encryption, ends in the
\* decryption-failure error and returns no plaintext.
C12_WrongKeyOrAlteredFails ==
    (/\ crypto.op = "decrypt"
     /\ crypto.key \in CryptoKeys /\ crypto.dkey \in CryptoKeys
     /\ crypto.dkey # crypto.key \/ crypto.ciphertext # crypto.encrypted)
        => crypto.out = Thrown("Decryption failed")

\* decrypt was given the right key and a ciphertext altered in a byte of the
\* encrypted message itself
C12_Witness ==
    /\ crypto.op = "decrypt"
    /\ crypto.dkey = crypto.key
    /\ crypto.out = Thrown("Decryption failed")
    /\ \E i \in (NONCE_SIZE + 1)..(NONCE_SIZE + Len(crypto.plaintext)) :
           crypto.ciphertext[i] # crypto.encrypted[i]

\* C13: get_one(d) returns the credential of d used last, which after
\* save(d, alice), save(d, bob), update_last_used(d, alice) is alice's, with
\* either backend and however little time passes between the calls; it
\* returns absent when d has no credential.
C13_GetOneReturnsLastUsed ==
    (vlog.op = "get_one" /\ vlog.domain = VaultDomain) =>
        /\ vlog.used # <<>> => (vlog.out # <<>> /\ vlog.out[1].username = vlog.used)
        /\ (\A u \in Usernames : vlog.saved[u] = <<>>) => vlog.out = <<>>

\* C14: after any saves and deletes, get(d) returns exactly one credential
\* for each username saved for d and not deleted since, with the password of
\* the most recent save, and has_credentials(d) is true exactly when get(d)
\* is not empty.
C14_VaultIsMapByDomainAndUsername ==
    /\ (vlog.op = "get" /\ vlog.domain = VaultDomain) =>
           /\ \A u \in Usernames :
                  Cardinality({i \in 1..Len(vlog.out) : vlog.out[i].username = u})
                      = IF vlog.saved[u] # <<>> THEN 1 ELSE 0
           /\ \A i \in 1..Len(vlog.out) :
                  /\ vlog.out[i].username \in Usernames
                  /\ vlog.out[i].password = vlog.saved[vlog.out[i].username]
    /\ \A d \in {VaultDomain, OtherDomain} :
           vlog.op # "none" =>
               (has_credentials(vault, d, now) <=> vault_get(vault, d, now) # <<>>)

\* C15: in every state reached through create_webview, destroy_webview,
\* get_webview, get_container, unload and restore, a tab whose unloaded flag
\* is true holds no web view (and no container); a tab on which nothing was
\* called yet holds no web view and is not flagged unloaded
C15_UnloadedHoldsNoView ==
    /\ tab.is_unloaded => (~tab.webview /\ ~tab.container)
    /\ tlog.op = "none" => (~tab.webview /\ ~tab.is_unloaded)

\* a tab that held a view was unloaded
C15_Witness ==
    /\ tlog.op = "unload"
    /\ tlog.pre.webview
    /\ tab.is_unloaded

\* C16: unload on a tab that is not unloaded leaves it flagged unloaded with
\* no view and no container, its url the uri the view reported if there was a
\* view and it reported one and otherwise its url as before, its title and
\* both last-active times as before; unload on an unloaded tab changes nothing
C16_UnloadKeepsMetadata ==
    tlog.op = "unload" =>
        IF tlog.pre.is_unloaded THEN tab = tlog.pre
        ELSE /\ tab.is_unloaded
             /\ ~tab.webview
             /\ ~tab.container
             /\ tab.url = IF tlog.pre.webview /\ tlog.pre.view_uri # ""
                          THEN tlog.pre.view_uri ELSE tlog.pre.url
             /\ tab.title = tlog.pre.title
             /\ tab.last_active = tlog.pre.last_active
             /\ tab.last_active_system = tlog.pre.last_active_system

\* a tab whose page had navigated away from its url was unloaded some time
\* after it was last active, under a title the page had set
C16_Witness ==
    /\ tlog.op = "unload"
    /\ tlog.pre.webview
    /\ tlog.pre.url = ExampleUrl
    /\ tlog.pre.view_uri = PageUrl
    /\ tab.url = PageUrl
    /\ tab.title # "New Tab"
    /\ tab.last_active < now

EngineFailed ==
    /\ tlog.returns # <<>>
    /\ \A i \in 1..Len(tlog.returns) : ~tlog.returns[i]

\* C18: when the engine supplies no view during create_webview or restore,
\* the tab is as it was before the call: still flagged unloaded if it was,
\* with no view and no container, and not reported as loaded
C18_EngineFailureKeepsState ==
    (tlog.op \in {"create_webview", "restore"} /\ EngineFailed) =>
        /\ tab.is_unloaded = tlog.pre.is_unloaded
        /\ tab.webview = tlog.pre.webview
        /\ tab.container = tlog.pre.container
        /\ ~is_loaded(tab)

\* post is pre with one element appended
Appended(pre, post) ==
    /\ Len(post) = Len(pre) + 1
    /\ SubSeq(post, 1, Len(pre)) = pre

\* a tab as Tab::Tab leaves it, for one of the urls
FreshTab(t_) ==
    /\ t_.url \in Urls
    /\ t_.title = "New Tab"
    /\ ~t_.webview
    /\ ~t_.is_unloaded

\* the session is the one before with a fresh tab appended and made active
TabAddedActive(pre, post) ==
    /\ Appended(pre.tabs, post.tabs)
    /\ FreshTab(post.tabs[Len(post.tabs)])
    /\ post.active_tab_index = Len(post.tabs) - 1

\* the workspace is the one before with an empty session appended and made
\* active
SessionAddedActive(pre, post) ==
    /\ Appended(pre.sessions, post.sessions)
    /\ post.sessions[Len(post.sessions)].tabs = <<>>
    /\ post.active_session_index = Len(post.sessions) - 1

\* C19: a step of Session::add_tab appends a fresh tab to one session and
\* makes it that session's active tab, all other sessions as before; a step
\* of Workspace::add_session appends an empty session to one workspace and
\* makes it active; after a step of SessionManager::new_tab the current tab
\* is the fresh tab, last in the current session, and when the current
\* workspace had no session the step created one holding just that tab
C19_AddedElementBecomesActive ==
    [][/\ last'.op = "add_tab" =>
            /\ Len(workspaces') = Len(workspaces)
            /\ \E w \in 1..Len(workspaces) : \E i \in 1..Len(workspaces[w].sessions) :
                   /\ i <= Len(workspaces'[w].sessions)
                   /\ TabAddedActive(workspaces[w].sessions[i], workspaces'[w].sessions[i])
            /\ \A w \in 1..Len(workspaces) :
                   /\ Len(workspaces'[w].sessions) = Len(workspaces[w].sessions)
                   /\ \A i \in 1..Len(workspaces[w].sessions) :
                          \/ workspaces'[w].sessions[i] = workspaces[w].sessions[i]
                          \/ TabAddedActive(workspaces[w].sessions[i],
                                            workspaces'[w].sessions[i])
       /\ last'.op = "add_session" =>
            /\ Len(workspaces') = Len(workspaces)
            /\ \E w \in 1..Len(workspaces) :
                   SessionAddedActive(workspaces[w], workspaces'[w])
            /\ \A w \in 1..Len(workspaces) :
                   \/ workspaces'[w] = workspaces[w]
                   \/ SessionAddedActive(workspaces[w], workspaces'[w])
       /\ last'.op = "new_tab" =>
            /\ HasTab(TheSM)'
            /\ FreshTab(CurTab(TheSM)')
            /\ CurSession(TheSM)'.active_tab_index = Len(CurSession(TheSM)'.tabs) - 1
            /\ workspaces # <<>> =>
                   IF HasSession(TheSM)
                   THEN /\ Len(CurWs(TheSM)'.sessions) = Len(CurWs(TheSM).sessions)
                        /\ CurWs(TheSM)'.active_session_index
                               = CurWs(TheSM).active_session_index
                        /\ TabAddedActive(CurSession(TheSM), CurSession(TheSM)')
                   ELSE /\ Len(CurWs(TheSM)'.sessions) = 1
                        /\ CurWs(TheSM)'.active_session_index = 0
                        /\ Len(CurSession(TheSM)'.tabs) = 1]_vars

\* new_tab has just put a tab into the only session of the current workspace,
\* which is not the Overview session the workspace began with
C19_Witness ==
    /\ last.op = "new_tab"
    /\ HasTab(TheSM)
    /\ CurSession(TheSM).active_tab_index = Len(CurSession(TheSM).tabs) - 1
    /\ Len(CurWs(TheSM).sessions) = 1
    /\ CurSession(TheSM).name = "Session 1"
    /\ Len(CurSession(TheSM).tabs) = 1

\* the manager as get_current_session finds it: with the default workspace
\* if there was none
Repaired == get_current_workspace(TheSM, now)

\* the step left the hierarchy as get_current_session found it
NothingMoved ==
    /\ workspaces' = Repaired.workspaces
    /\ current_workspace_index' = Repaired.current_workspace_index

\* the step set the active tab of the current session to index, with the
\* same tabs in it, and the same session current
ActiveTabBecomes(index) ==
    /\ current_workspace_index' = Repaired.current_workspace_index
    /\ Len(CurWs(TheSM)'.sessions) = Len(CurWs(Repaired).sessions)
    /\ CurWs(TheSM)'.active_session_index = CurWs(Repaired).active_session_index
    /\ Len(CurSession(TheSM)'.tabs) = Len(CurSession(Repaired).tabs)
    /\ CurSession(TheSM)'.active_tab_index = index

\* the step set the active session of the current workspace to index, with
\* the same sessions in it
ActiveSessionBecomes(index) ==
    /\ current_workspace_index' = Repaired.current_workspace_index
    /\ Len(CurWs(TheSM)'.sessions) = Len(CurWs(Repaired).sessions)
    /\ CurWs(TheSM)'.active_session_index = index
    /\ \A i \in 1..Len(CurWs(Repaired).sessions) :
           Len(CurWs(TheSM)'.sessions[i].tabs) = Len(CurWs(Repaired).sessions[i].tabs)

\* C20: with n > 0 tabs in the current session and a its active index,
\* next_tab makes the active index (a + 1) mod n and previous_tab makes it
\* (a - 1) mod n; next_session and previous_session do the same with the
\* sessions of the current workspace; with no tab (no session) each leaves
\* the hierarchy as it found it
C20_DirectionalNavigationWraps ==
    [][LET hasTabs == HasSession(Repaired) /\ CurSession(Repaired).tabs # <<>>
           n == Len(CurSession(Repaired).tabs)
           a == CurSession(Repaired).active_tab_index
           m == Len(CurWs(Repaired).sessions)
           b == CurWs(Repaired).active_session_index
       IN  /\ last'.op = "next_tab" =>
                IF hasTabs THEN ActiveTabBecomes((a + 1) % n) ELSE NothingMoved
           /\ last'.op = "previous_tab" =>
                IF hasTabs THEN ActiveTabBecomes((a + n - 1) % n) ELSE NothingMoved
           /\ last'.op = "next_session" =>
                IF m > 0 THEN ActiveSessionBecomes((b + 1) % m) ELSE NothingMoved
           /\ last'.op = "previous_session" =>
                IF m > 0 THEN ActiveSessionBecomes((b + m - 1) % m) ELSE NothingMoved]_vars

\* previous_tab has gone from the first of three tabs to the last
C20_Witness ==
    /\ last.op = "previous_tab"
    /\ HasTab(TheSM)
    /\ Len(CurSession(TheSM).tabs) = 3
    /\ CurSession(TheSM).active_tab_index = 2

\* C21: right after construction the hierarchy is the workspace "Main" with
\* the one session "Overview", flagged is_overview and without tabs, and it
\* is what get_current_workspace and get_current_session return; in every
\* state reached afterwards get_current_workspace returns a workspace
C21_CurrentWorkspaceNeverNull ==
    /\ last.op = "init" =>
           /\ Shape(workspaces) = DefaultShape
           /\ Repaired = TheSM
           /\ CurWs(Repaired).name = "Main"
           /\ HasSession(Repaired)
           /\ CurSession(Repaired).name = "Overview"
           /\ CurSession(Repaired).is_overview
           /\ CurSession(Repaired).tabs = <<>>
    /\ Repaired.workspaces # <<>>
    /\ Repaired.current_workspace_index \in 0..(Len(Repaired.workspaces) - 1)
    /\ CurWs(Repaired).name # ""
    /\ workspaces = <<>> => (HasSession(Repaired) /\ CurSession(Repaired).is_overview)

\* a load_all that failed has left the manager without any workspace
C21_Witness ==
    /\ last.op = "load_all"
    /\ last.n = 0
    /\ workspaces = <<>>

\* C27: when load_all has returned, the hierarchy holds at least one
\* workspace; after a failure, and after a success on a store without
\* workspace rows, it is the default workspace with its Overview session
C27_LoadAllLeavesAWorkspace ==
    last.op = "load_all" =>
        /\ workspaces # <<>>
        /\ (last.n = 0 \/ db.workspaces = <<>>) => Shape(workspaces) = DefaultShape

\* C22: in every state the workspaces' names are non-empty and differ from
\* one another, and within each workspace the sessions' names differ from
\* one another
C22_NamesUnique ==
    /\ \A w \in 1..Len(workspaces) : workspaces[w].name # ""
    /\ \A v, w \in 1..Len(workspaces) :
           v # w => workspaces[v].name # workspaces[w].name
    /\ \A w \in 1..Len(workspaces) :
           \A i, j \in 1..Len(workspaces[w].sessions) :
               i # j => workspaces[w].sessions[i].name # workspaces[w].sessions[j].name

\* what a lookup returns, without the times
Found(creds) == {[username |-> creds[i].username, password |-> creds[i].password] :
                    i \in 1..Len(creds)}

\* C23: every credential operation keys on the bare host: what get, get_one
\* and has_credentials return for a url with scheme, port and path is what
\* they return for its host, whichever of the two save and delete were
\* called with
C23_OperationsKeyOnHost ==
    vlog.op # "none" =>
        \A d \in {VaultDomain, UrlDomain} :
            /\ has_credentials(vault, d, now) <=> has_credentials(vault, extract_domain(d), now)
            /\ Found(vault_get(vault, d, now)) = Found(vault_get(vault, extract_domain(d), now))
            /\ (get_one(vault, d, now) = {<<>>}) <=> (get_one(vault, extract_domain(d), now) = {<<>>})

\* C24: whenever the store of a PersistenceManager is released (close, its
\* destructor, the window's destructor), save_all was called with the
\* hierarchy as it is at the release
C24_FinalSaveBeforeRelease ==
    app.released # <<>> => app.saved = app.released

\* C25: when a shutdown handler calls its save_all, the autosave timer and
\* the unload timer have both been cancelled
C25_TimersCancelledBeforeFinalSave ==
    app.final.by # "none" => (~app.final.autosave_timer /\ ~app.final.unload_timer)

\* C26: an autosave tick calls save_all and leaves the timer registered
\* whether save_all succeeded or not; the timer goes away only with
\* disable_autosave, close or a destructor
C26_FailedAutosaveKeepsTimer ==
    [][/\ app'.ticks = app.ticks + 1 =>
            /\ last'.op = "autosave"
            /\ app'.saved = <<workspaces>>
            /\ app'.autosave_timer
       /\ (app.autosave_timer /\ ~app'.autosave_timer) =>
            last'.op \in {"disable_autosave", "close", "~PersistenceManager",
                          "~BrowserWindow"}]_vars

\* the second tick saved a hierarchy that the first tick had failed to save
C26_Witness ==
    /\ last.op = "autosave"
    /\ last.n = 1
    /\ app.ticks = 2
    /\ db.open
    /\ db.saves = 1
    /\ db.workspaces # <<>>
    /\ app.final.by = "none"

\* the tabs of s that are loaded, not at index a, not unloaded and whose
\* last_active lies at least timeout seconds before now
IdleEligible(s, a) ==
    {i \in EligibleAnyIdle(s, a) :
        now - s.tabs[i].last_active >= unload_timeout_seconds * TicksPerSec}

\* C28: with at most max_loaded_tabs tabs loaded, check_and_unload unloads
\* exactly the loaded, not active, not unloaded tabs idle for at least the
\* timeout and leaves every other tab as it was
C28_TimeoutBranchUnloadsIdleTabs ==
    [][(last'.op = "check_and_unload" /\ now' = now /\ HasSession(TheSM)
        /\ count_loaded_tabs(CurSession(TheSM)) <= max_loaded_tabs) =>
          LET pre == CurSession(TheSM)
              post == CurSession(TheSM)'
          IN  /\ Len(post.tabs) = Len(pre.tabs)
              /\ UnloadedByStep(pre, post) = IdleEligible(pre, last'.a)
              /\ \A i \in 1..Len(pre.tabs) :
                     i \notin IdleEligible(pre, last'.a) => post.tabs[i] = pre.tabs[i]]_vars

\* under the cap a sweep has unloaded a tab idle for exactly the timeout and
\* kept a loaded background tab that was idle for less
C28_Witness ==
    /\ last.op = "check_and_unload"
    /\ HasTab(TheSM)
    /\ last.n <= max_loaded_tabs
    /\ \E i, j \in 1..Len(CurSession(TheSM).tabs) :
           /\ (i - 1) # last.a /\ (j - 1) # last.a
           /\ CurSession(TheSM).tabs[i].is_unloaded
           /\ now - CurSession(TheSM).tabs[i].last_active = unload_timeout_seconds * TicksPerSec
           /\ is_loaded(CurSession(TheSM).tabs[j])
           /\ ~CurSession(TheSM).tabs[j].is_unloaded
           /\ now - CurSession(TheSM).tabs[j].last_active < unload_timeout_seconds * TicksPerSec

\* the active index the removal of one of n elements leaves, from index a
AfterRemoval(a, n) == IF n = 1 THEN 0 ELSE Min(a, n - 2)

\* C29: a remove_tab that removed a tab of a session with n tabs and active
\* index a leaves the active index at 0 when n = 1 and at min(a, n - 2)
\* otherwise, whichever tab was removed; remove_session does the same to the
\* active session index of its workspace
C29_RemovalClampsActiveIndex ==
    [][/\ last'.op = "remove_tab" =>
            \A w \in 1..Len(workspaces) : \A s \in 1..Len(workspaces[w].sessions) :
                LET pre == workspaces[w].sessions[s]
                    post == workspaces'[w].sessions[s]
                IN  Len(post.tabs) = Len(pre.tabs) - 1 =>
                        post.active_tab_index =
                            AfterRemoval(pre.active_tab_index, Len(pre.tabs))
       /\ last'.op = "remove_session" =>
            \A w \in 1..Len(workspaces) :
                LET pre == workspaces[w]
                    post == workspaces'[w]
                IN  Len(post.sessions) = Len(pre.sessions) - 1 =>
                        post.active_session_index =
                            AfterRemoval(pre.active_session_index, Len(pre.sessions))]_vars

\* remove_tab(0) on three tabs of which the second was active: the index is
\* still 1 and the tab switched to after the first tick is now in front of
\* the active one, which nobody switched to
C29_Witness ==
    /\ last.op = "remove_tab"
    /\ HasTab(TheSM)
    /\ Len(CurSession(TheSM).tabs) = 2
    /\ CurSession(TheSM).active_tab_index = 1
    /\ CurSession(TheSM).tabs[1].last_active > StartTime
    /\ CurSession(TheSM).tabs[2].last_active = StartTime

\* how many sessions and tabs switch_session and switch_tab can choose from
\* before they are called: those of the current workspace and of its active
\* session, none when there is no workspace or no session
SessionCount == SessionsOf(TheSM)
TabCount == TabsOf(TheSM)

\* C30: in every reachable state, the empty hierarchy after reset(false)
\* included, switch_workspace, switch_session, switch_tab, set_active_tab,
\* set_active_session, remove_tab and remove_session called with an index
\* that is out of range return the hierarchy as it was: the same workspaces,
\* sessions and tabs, active indices and time points
C30_OutOfRangeIndexChangesNothing ==
    \A index \in 0..(MaxNavTabs + MaxNavSessions) :
        /\ index >= Len(workspaces) => switch_workspace(TheSM, index) = TheSM
        /\ index >= SessionCount => switch_session(TheSM, index, now) = TheSM
        /\ index >= TabCount => switch_tab(TheSM, index, now) = TheSM
        /\ \A w \in 1..Len(workspaces) :
               /\ index >= Len(workspaces[w].sessions) =>
                      /\ set_active_session(workspaces[w], index, now) = workspaces[w]
                      /\ remove_session(workspaces[w], index, now) = workspaces[w]
               /\ \A s \in 1..Len(workspaces[w].sessions) :
                      index >= Len(workspaces[w].sessions[s].tabs) =>
                          /\ set_active_tab(workspaces[w].sessions[s], index, now)
                                 = workspaces[w].sessions[s]
                          /\ remove_tab(workspaces[w].sessions[s], index, now)
                                 = workspaces[w].sessions[s]

\* a tab without its lifecycle state (view, container, what the view shows,
\* the unloaded flag) and its url
BesidesLifecycle(t_) ==
    [t_ EXCEPT !.webview = FALSE, !.container = FALSE, !.view_uri = "",
               !.is_unloaded = FALSE, !.url = ""]

\* C31: a sweep leaves the number and order of workspaces, sessions and
\* tabs, every active index and every tab of another session or workspace
\* as they were; of the session it was given it changes at most the
\* lifecycle state and the url of tabs other than the active one
C31_SweepChangesOnlyBackgroundTabs ==
    [][(IsSweep(last') /\ now' = now /\ workspaces # <<>>) =>
          /\ current_workspace_index' = current_workspace_index
          /\ Len(workspaces') = Len(workspaces)
          /\ \A w \in 1..Len(workspaces) :
                 LET pre == workspaces[w]
                     post == workspaces'[w]
                 IN  /\ [post EXCEPT !.sessions = <<>>] = [pre EXCEPT !.sessions = <<>>]
                     /\ Len(post.sessions) = Len(pre.sessions)
                     /\ \A s \in 1..Len(pre.sessions) :
                            LET given == /\ w = current_workspace_index + 1
                                         /\ s = pre.active_session_index + 1
                                before == pre.sessions[s]
                                after == post.sessions[s]
                            IN  /\ [after EXCEPT !.tabs = <<>>] = [before EXCEPT !.tabs = <<>>]
                                /\ Len(after.tabs) = Len(before.tabs)
                                /\ \A i \in 1..Len(before.tabs) :
                                       IF given /\ i # before.active_tab_index + 1
                                       THEN BesidesLifecycle(after.tabs[i])
                                                = BesidesLifecycle(before.tabs[i])
                                       ELSE after.tabs[i] = before.tabs[i]]_vars

\* a sweep has run on a session of which a background tab is unloaded and
\* whose active tab is not the first, while a session that is not current
\* holds a loaded tab idle for at least the timeout
C31_Witness ==
    /\ IsSweep(last)
    /\ HasTab(TheSM)
    /\ CurSession(TheSM).active_tab_index > 0
    /\ \E i \in 1..Len(CurSession(TheSM).tabs) : CurSession(TheSM).tabs[i].is_unloaded
    /\ \E s \in 1..Len(CurWs(TheSM).sessions) :
           /\ s # CurWs(TheSM).active_session_index + 1
           /\ \E i \in 1..Len(CurWs(TheSM).sessions[s].tabs) :
                  LET t_ == CurWs(TheSM).sessions[s].tabs[i]
                  IN  /\ is_loaded(t_) /\ ~t_.is_unloaded
                      /\ now - t_.last_active >= unload_timeout_seconds * TicksPerSec

\* a tab without its two last-active time points
BesidesLastActive(t_) == [t_ EXCEPT !.last_active = 0, !.last_active_system = 0]

\* C32: an operation that makes a tab the active tab of its session
\* (set_active_tab, switch_tab, next_tab, previous_tab, add_tab and new_tab,
\* and remove_tab or close_current_tab when a different tab is active after
\* the removal) leaves that tab with both last-active time points at the
\* time of the operation; where the tab was there before, its lifecycle
\* state, url and title are as they were and its monotonic time point has
\* not moved backwards
C32_ActivationStampsTheTab ==
    [][(now' = now /\ Len(workspaces') = Len(workspaces)) =>
          \A w \in 1..Len(workspaces) :
              Len(workspaces'[w].sessions) = Len(workspaces[w].sessions) =>
                  \A s \in 1..Len(workspaces[w].sessions) :
                      LET pre == workspaces[w].sessions[s]
                          post == workspaces'[w].sessions[s]
                          active == post.tabs[post.active_tab_index + 1]
                          switched ==
                              /\ last'.op \in {"set_active_tab", "switch_tab", "next_tab",
                                                "previous_tab"}
                              /\ Len(post.tabs) = Len(pre.tabs)
                              /\ post.active_tab_index # pre.active_tab_index
                          added ==
                              /\ last'.op \in {"add_tab", "new_tab"}
                              /\ Len(post.tabs) = Len(pre.tabs) + 1
                          removed ==
                              /\ last'.op \in {"remove_tab", "close_current_tab"}
                              /\ Len(post.tabs) = Len(pre.tabs) - 1
                              /\ post.tabs # <<>>
                              /\ active # pre.tabs[pre.active_tab_index + 1]
                      IN  /\ (switched \/ added \/ removed) =>
                                 /\ active.last_active = now
                                 /\ active.last_active_system = now
                          /\ switched =>
                                 LET old == pre.tabs[post.active_tab_index + 1]
                                 IN  /\ BesidesLastActive(active) = BesidesLastActive(old)
                                     /\ active.last_active >= old.last_active]_vars

\* the key a stored password was written with: none for a text that is the
\* password itself, otherwise the key of the tag at the end of the pairs of
\* digits
WrittenKey(text) ==
    IF Len(text) < NONCE_SIZE + ABYTES THEN <<>> ELSE text[Len(text)].hex.key

\* C33: when the local store holds an entry of the domain written with a
\* key other than the one get and get_one decrypt with, no exception
\* reaches their caller and no credential is returned whose password is
\* not the saved one
C33_WrongKeyGivesAbsence ==
    (/\ vlog.op \in {"get", "get_one"}
     /\ vlog.domain = VaultDomain
     /\ ~vault.use_libsecret
     /\ \E i \in 1..Len(vault.rows) :
            /\ vault.rows[i].domain = VaultDomain
            /\ WrittenKey(vault.rows[i].password_encrypted) # vault.encryption_key) =>
        /\ vlog.ok
        /\ \A i \in 1..Len(vlog.out) :
               vlog.out[i].password = vlog.saved[vlog.out[i].username]

C35_OneAutosaveTimer ==
    [][/\ app'.autosave_sources = (IF app'.autosave_enabled THEN 1 ELSE 0)
       /\ app'.autosave_timer <=> app'.autosave_enabled
       /\ ~app.autosave_enabled => ~(last'.op = "autosave" /\ app'.ticks # app.ticks)]_vars

\* enable_autosave was called on a manager whose timer was registered
C35_Witness ==
    /\ last.op = "enable_autosave" /\ last.n = 1
    /\ app.autosave_enabled /\ app.autosave_sources = 1

\* C36: whatever the window's operations and the sweeps of the unload timer
\* did, the active tab of the current session is not unloaded
C36_ActiveTabNeverUnloaded ==
    LET g == TheSM
    IN  (workspaces # <<>> /\ HasSession(g) /\ CurSession(g).tabs # <<>>) =>
            ~CurTab(g).is_unloaded

\* an operation of the window that closes no tab returned with fewer tabs
\* unloaded than when it was called: show_tab restored the tab it shows
C36_Witness ==
    /\ last.op \in {"window_next_tab", "window_previous_tab", "jump_to_tab",
                     "window_next_session", "window_previous_session"}
    /\ UnloadedTabs < last.a
    /\ ~CurTab(TheSM).is_unloaded

\* C37: after an add_tab, and after a remove_tab that removed a tab, the
\* session is flagged as overview exactly when it holds no tab; and after
\* the remove_tab of close_current_tab the current session is never both
\* empty and not flagged
C37_OverviewFlagTracksEmptiness ==
    [][/\ last'.op \in {"add_tab", "remove_tab"} =>
            \A w \in 1..Len(workspaces) : \A s \in 1..Len(workspaces[w].sessions) :
                LET pre == workspaces[w].sessions[s]
                    post == workspaces'[w].sessions[s]
                IN  Len(post.tabs) # Len(pre.tabs) =>
                        post.is_overview = (post.tabs = <<>>)
       /\ last'.op = "close_current_tab" =>
            LET g == get_current_workspace(TheSM, now)
            IN  HasSession(g) =>
                    LET s == remove_tab(CurSession(g), CurSession(g).active_tab_index, now)
                    IN  ~(s.tabs = <<>> /\ ~s.is_overview)]_vars

\* C38: BrowserWindow::close_current_tab, also when the close button of a
\* tab calls it, leaves a session that held a tab with a tab and removes no
\* session; on a session of exactly one tab it keeps the tab, with url
\* "about:blank" and title "New Tab", and on a session of two or more it
\* removes the active tab and no other
C38_WindowCloseKeepsATab ==
    [][LET post == SM(workspaces', current_workspace_index')
           s == CurSession(TheSM)
           left == RemoveAt(s.tabs, s.active_tab_index)
       IN  /\ (last'.op \in {"window_close_current_tab", "on_tab_close_clicked"}
               /\ TabsOf(TheSM) >= 1) =>
                  /\ TabsOf(post) >= 1
                  /\ SessionsOf(post) = SessionsOf(TheSM)
                  /\ TabsOf(post) \in {TabsOf(TheSM), TabsOf(TheSM) - 1}
           /\ (last'.op = "window_close_current_tab" /\ TabsOf(TheSM) = 1) =>
                  /\ TabsOf(post) = 1
                  /\ CurTab(post).url = BlankUrl
                  /\ CurTab(post).title = "New Tab"
           /\ (last'.op = "window_close_current_tab" /\ TabsOf(TheSM) >= 2) =>
                  /\ TabsOf(post) = TabsOf(TheSM) - 1
                  /\ \A k \in 1..Len(left) :
                         k # CurSession(post).active_tab_index + 1 =>
                             CurSession(post).tabs[k] = left[k]]_vars

\* close_current_tab of the window was called on a session of one tab, which
\* is still there
C38_Witness ==
    /\ last.op = "window_close_current_tab" /\ last.n = 1
    /\ TabCount = 1
    /\ CurTab(TheSM).url = BlankUrl /\ CurTab(TheSM).title = "New Tab"

\* C39: after a load_all that succeeded on a store that holds a workspace,
\* the current workspace is the first one, the active session of every
\* workspace is its last session and the active tab of every session that
\* holds a tab is its last tab
C39_LoadMakesLastActive ==
    (last.op = "load_all" /\ last.n = 1 /\ db.workspaces # <<>>) =>
        /\ current_workspace_index = 0
        /\ \A w \in 1..Len(workspaces) :
               /\ workspaces[w].sessions # <<>> =>
                      workspaces[w].active_session_index = Len(workspaces[w].sessions) - 1
               /\ \A s \in 1..Len(workspaces[w].sessions) :
                      workspaces[w].sessions[s].tabs # <<>> =>
                          workspaces[w].sessions[s].active_tab_index =
                              Len(workspaces[w].sessions[s].tabs) - 1

\* the hierarchy given to save_all had a workspace whose active session was
\* not its last and a session whose active tab was not its last, and it was
\* loaded back
C39_Witness ==
    /\ last.op = "load_all" /\ last.n = 1 /\ db.workspaces # <<>>
    /\ app.saved # <<>>
    /\ \E w \in 1..Len(app.saved[1]) :
           /\ app.saved[1][w].active_session_index # Len(app.saved[1][w].sessions) - 1
           /\ \E s \in 1..Len(app.saved[1][w].sessions) :
                  /\ Len(app.saved[1][w].sessions[s].tabs) >= 2
                  /\ app.saved[1][w].sessions[s].active_tab_index #
                         Len(app.saved[1][w].sessions[s].tabs) - 1
    /\ \E w \in 1..Len(workspaces) : \E s \in 1..Len(workspaces[w].sessions) :
           Len(workspaces[w].sessions[s].tabs) >= 2

\* the snapshot references of the tabs of a hierarchy
SnapshotPaths(wss) ==
    UNION {UNION {{wss[w].sessions[j].tabs[k].snapshot_path :
                        k \in 1..Len(wss[w].sessions[j].tabs)} :
                  j \in 1..Len(wss[w].sessions)} : w \in 1..Len(wss)}

\* C40: check_and_unload and unload_all_except_active leave the
\* snapshot_path of every tab as it was, with snapshots enabled or not;
\* unload_all_except_active unloads every loaded tab but the active one also
\* when no snapshot was made; and the snapshot references save_all stores
\* are those the tabs hold
C40_EvictionKeepsSnapshotPath ==
    [][/\ last'.op \in {"check_and_unload", "unload_all_except_active"} =>
            /\ Len(workspaces') = Len(workspaces)
            /\ \A w \in 1..Len(workspaces) : \A j \in 1..Len(workspaces[w].sessions) :
                   \A k \in 1..Len(workspaces[w].sessions[j].tabs) :
                       workspaces'[w].sessions[j].tabs[k].snapshot_path =
                           workspaces[w].sessions[j].tabs[k].snapshot_path
       /\ last'.op = "unload_all_except_active" =>
            LET pre == CurSession(TheSM)
                post == CurSession(SM(workspaces', current_workspace_index'))
            IN  \A k \in 1..Len(pre.tabs) :
                    (k - 1 # pre.active_tab_index /\ is_loaded(pre.tabs[k])
                       /\ ~pre.tabs[k].is_unloaded) => post.tabs[k].is_unloaded
       /\ (last'.op = "save_all" /\ last'.n = 1) =>
            {ColumnText(r.snapshot_path) : r \in Range(db'.tabs)}
                \subseteq SnapshotPaths(workspaces)]_vars

\* with snapshots enabled a tab was unloaded and the hierarchy saved
C40_Witness ==
    /\ last.op = "save_all" /\ last.n = 1
    /\ app.snapshots_enabled
    /\ db.tabs # <<>>
    /\ \E k \in 1..Len(CurSession(TheSM).tabs) : CurSession(TheSM).tabs[k].is_unloaded

====
